---- MODULE Spec2Model ----
(***************************************************************************)
(* A model of Brew-file (src/docs/BrewFile.py): the manifest document      *)
(* (BrewInfo: read, write, sort, input_to_list), the manifest graph        *)
(* (BrewFile: read_all, read, get, list_to_main, clean_list), the probe of *)
(* the installed state (get_list) and the reconciler (install,             *)
(* initialize).                                                            *)
(*                                                                         *)
(* Text.  A Python string is modelled as a sequence of lexemes.  A lexeme  *)
(* is either one of the characters the program treats specially (blank,    *)
(* tab, the two quotes, comma, the brackets, '#', '/'), the two-character  *)
(* option prefix "--", or a word: a maximal run of other characters.  All  *)
(* string operations of the program that the model needs (replace, split,  *)
(* strip, join, the regular expressions of read) are defined on the        *)
(* special lexemes only, so they are computed on this representation as    *)
(* Python computes them on the characters.  A file is a sequence of lines, *)
(* a line a string without its line terminator.                            *)
(***************************************************************************)
EXTENDS Integers, Sequences, FiniteSets, TLC

VARIABLES
    files,      \* the manifest files on disk: path -> text (sequence of lines)
    sys,        \* the machine: installed packages, taps, casks, store apps, tap directories
    opt,        \* BrewFile.opt, the option dictionary shared with BrewHelper
    docs,       \* the BrewInfo objects created so far; docs[1] is BrewFile.brewinfo
    ext,        \* BrewFile.brewinfo_ext, a list of indices into docs
    main,       \* BrewFile.brewinfo_main, an index into docs
    stack,      \* the activation records of BrewFile.read
    pc,         \* the position of the process
    log,        \* the external commands issued so far, with their exit status
    run,        \* the number of the process run (the tool run again on the same machine)
    cfg,        \* the options the tool is started with (environment and command line)
    base        \* what a claim compares with: a snapshot taken by the process

vars == <<files, sys, opt, docs, ext, main, stack, pc, log, run, cfg, base>>

-----------------------------------------------------------------------------
(* Strings as sequences of lexemes                                         *)

SP == " "
TAB == "\t"
SQ == "'"
DQ == "\""
WS == {SP, TAB}
QUOTES == {SQ, DQ}
SPECIAL == {SP, TAB, SQ, DQ, ",", "[", "]", "#", "/", "--"}

S(w) == <<w>>

RECURSIVE Concat(_)
Concat(ss) == IF ss = <<>> THEN <<>> ELSE Head(ss) \o Concat(Tail(ss))

\* adjacent words are one word: the canonical form of a string
RECURSIVE Canon(_)
Canon(s) ==
    IF Len(s) < 2 THEN s
    ELSE IF s[1] \notin SPECIAL /\ s[2] \notin SPECIAL
         THEN Canon(<<s[1] \o s[2]>> \o SubSeq(s, 3, Len(s)))
         ELSE <<s[1]>> \o Canon(Tail(s))

\* str.replace(c, "")
Remove(s, c) == Canon(SelectSeq(s, LAMBDA x : x # c))

\* str.replace(c, d) for single characters
Replace(s, c, d) == [i \in 1..Len(s) |-> IF s[i] = c THEN d ELSE s[i]]

\* c in str
Has(s, c) == \E i \in 1..Len(s) : s[i] = c

RECURSIVE LStripSet(_, _)
LStripSet(s, cs) ==
    IF s # <<>> /\ Head(s) \in cs THEN LStripSet(Tail(s), cs) ELSE s

RECURSIVE RStripSet(_, _)
RStripSet(s, cs) ==
    IF s # <<>> /\ s[Len(s)] \in cs THEN RStripSet(SubSeq(s, 1, Len(s) - 1), cs) ELSE s

\* str.strip() and str.strip(c)
Strip(s) == RStripSet(LStripSet(s, WS), WS)
StripCh(s, c) == RStripSet(LStripSet(s, {c}), {c})

\* str.split(): the maximal runs of non-blank characters
RECURSIVE SplitFrom(_, _)
SplitFrom(s, cur) ==
    IF s = <<>> THEN (IF cur = <<>> THEN <<>> ELSE <<cur>>)
    ELSE IF Head(s) \in WS
         THEN (IF cur = <<>> THEN <<>> ELSE <<cur>>) \o SplitFrom(Tail(s), <<>>)
         ELSE SplitFrom(Tail(s), Append(cur, Head(s)))
Split(s) == SplitFrom(s, <<>>)

\* str.split(c) for a single character c: every separator ends a field
RECURSIVE SplitChFrom(_, _, _)
SplitChFrom(s, c, cur) ==
    IF s = <<>> THEN <<cur>>
    ELSE IF Head(s) = c
         THEN <<cur>> \o SplitChFrom(Tail(s), c, <<>>)
         ELSE SplitChFrom(Tail(s), c, Append(cur, Head(s)))
SplitCh(s, c) == SplitChFrom(s, c, <<>>)

\* sep.join(list)
RECURSIVE Join(_, _)
Join(toks, sep) ==
    IF toks = <<>> THEN <<>>
    ELSE IF Len(toks) = 1 THEN toks[1]
    ELSE toks[1] \o sep \o Join(Tail(toks), sep)

From(seq, i) == SubSeq(seq, i, Len(seq))
Last(seq) == seq[Len(seq)]
Range(seq) == {seq[i] : i \in 1..Len(seq)}
In(x, seq) == \E i \in 1..Len(seq) : seq[i] = x

\* list.remove(x): the first occurrence goes
RemoveFirst(seq, x) ==
    IF ~In(x, seq) THEN seq
    ELSE LET i == CHOOSE k \in 1..Len(seq) :
                      seq[k] = x /\ \A j \in 1..(k - 1) : seq[j] # x
         IN SubSeq(seq, 1, i - 1) \o SubSeq(seq, i + 1, Len(seq))

\* list.extend([x for x in val if x not in list]) of BrewInfo.add: the test reads
\* the list as it was before the call
AddNew(seq, val) == seq \o SelectSeq(val, LAMBDA x : ~In(x, seq))

\* dict.update and dict[k] = v
Put(d, k, v) == [x \in DOMAIN d \cup {k} |-> IF x = k THEN v ELSE d[x]]
Update(d, e) == [x \in DOMAIN d \cup DOMAIN e |-> IF x \in DOMAIN e THEN e[x] ELSE d[x]]
Del(d, k) == [x \in DOMAIN d \ {k} |-> d[x]]
EmptyDict == [x \in {} |-> <<>>]

-----------------------------------------------------------------------------
(* The order of strings.  Python compares strings character by character;  *)
(* WORDS lists the lexemes the model uses in that order, and every         *)
(* identifier the model sorts is built from them.                          *)

WORDS == <<SP, "#", SQ, "(2.1)", ",", "--", "/", "123456789", "987654321", "Bar",
           "Foo", "HEAD", "S1", "S2", "a", "b", "c", "cask", "core", "d", "direct",
           "echo", "foo", "hi", "homebrew", "r", "t", "u", "with-lua",
           "with-python">>

Rank(w) == IF In(w, WORDS) THEN CHOOSE i \in 1..Len(WORDS) : WORDS[i] = w ELSE Len(WORDS) + 1

RECURSIVE StrLess(_, _)
StrLess(s, t) ==
    IF t = <<>> THEN FALSE
    ELSE IF s = <<>> THEN TRUE
    ELSE IF s[1] = t[1] THEN StrLess(Tail(s), Tail(t))
    ELSE Rank(s[1]) < Rank(t[1])

\* list.sort(key): a stable sort
RECURSIVE InsertBy(_, _, _)
InsertBy(Key(_), sorted, x) ==
    IF sorted = <<>> THEN <<x>>
    ELSE IF StrLess(Key(x), Key(Head(sorted)))
         THEN <<x>> \o sorted
         ELSE <<Head(sorted)>> \o InsertBy(Key, Tail(sorted), x)

RECURSIVE SortBy(_, _)
SortBy(Key(_), seq) ==
    IF seq = <<>> THEN <<>>
    ELSE InsertBy(Key, SortBy(Key, SubSeq(seq, 1, Len(seq) - 1)), Last(seq))

Ident(x) == x
Sorted(seq) == SortBy(Ident, seq)

\* the elements of a set of strings, in order
RECURSIVE SortedSet(_)
SortedSet(set) ==
    IF set = {} THEN <<>>
    ELSE LET x == CHOOSE y \in set : \A z \in set \ {y} : StrLess(y, z)
         IN <<x>> \o SortedSet(set \ {x})

\* str.lower() on the words of the model
LowerWord(w) == CASE w = "Foo" -> "foo"
                  [] w = "Bar" -> "bar"
                  [] w = "Brewfile" -> "brewfile"
                  [] w = "HEAD" -> "head"
                  [] OTHER -> w
Lower(s) == [i \in 1..Len(s) |-> LowerWord(s[i])]

\* str.isdigit() and len(str) on the one-word identifiers of the model
DIGITS9 == {"123456789", "987654321"}
DIGITS == DIGITS9 \cup {"42"}
IsDigit(tok) == Len(tok) = 1 /\ tok[1] \in DIGITS
IsLongDigit(tok) == Len(tok) = 1 /\ tok[1] \in DIGITS9

-----------------------------------------------------------------------------
(* BrewInfo: one manifest document                                         *)

K_brew == S("brew")
K_install == S("install")
K_tap == S("tap")
K_tapall == S("tapall")
K_cask == S("cask")
K_mas == S("mas")
K_appstore == S("appstore")
K_main == S("main")
K_file == S("file")
K_brewfile == S("brewfile")
K_before == S("before")
K_after == S("after")
K_args == S("args:")
DIRECT == S("direct")

\* the content of a path at which there is no file: a value no text equals
NoFile == << <<"<no file>">> >>

\* BrewInfo.__init__.  tap_list is the list the attribute self.tap_list names and
\* tap_dic the list list_dic["tap_list"] names: one object until sort() rebinds
\* the attribute (tap_same).
NewBrewInfo(filename) ==
    [filename |-> filename,
     brew_input_opt |-> EmptyDict, brew_input |-> <<>>, tap_input |-> <<>>,
     cask_input |-> <<>>, appstore_input |-> <<>>, main_input |-> <<>>,
     file_input |-> <<>>, before_input |-> <<>>, after_input |-> <<>>,
     cmd_input |-> <<>>,
     brew_list_opt |-> EmptyDict, brew_list |-> <<>>, brew_full_list |-> <<>>,
     tap_list |-> <<>>, tap_dic |-> <<>>, tap_same |-> TRUE,
     cask_list |-> <<>>, appstore_list |-> <<>>, main_list |-> <<>>,
     file_list |-> <<>>, cask_nocask_list |-> <<>>]

clear_input(b) ==
    [b EXCEPT !.brew_input_opt = EmptyDict, !.brew_input = <<>>, !.tap_input = <<>>,
              !.cask_input = <<>>, !.appstore_input = <<>>, !.main_input = <<>>,
              !.file_input = <<>>, !.before_input = <<>>, !.after_input = <<>>,
              !.cmd_input = <<>>]

\* del self.tap_list[:] empties the object the attribute names
clear_list(b) ==
    [b EXCEPT !.brew_list_opt = EmptyDict, !.brew_list = <<>>, !.brew_full_list = <<>>,
              !.tap_list = <<>>, !.tap_dic = IF b.tap_same THEN <<>> ELSE b.tap_dic,
              !.cask_list = <<>>, !.cask_nocask_list = <<>>, !.appstore_list = <<>>,
              !.main_list = <<>>, !.file_list = <<>>]

\* self.tap_list.extend(...): the attribute's object
ExtendTapAttr(b, val) ==
    [b EXCEPT !.tap_list = b.tap_list \o val,
              !.tap_dic = IF b.tap_same THEN b.tap_dic \o val ELSE b.tap_dic]

\* a change of list_dic["tap_list"] through set_val, add or remove
SetTapDic(b, val) ==
    [b EXCEPT !.tap_dic = val, !.tap_list = IF b.tap_same THEN val ELSE b.tap_list]

BrewInfo_input_to_list(b) ==
    LET c == clear_list(clear_list(b))
        e == [c EXCEPT !.brew_list = c.brew_list \o b.brew_input,
                       !.brew_list_opt = Update(c.brew_list_opt, b.brew_input_opt),
                       !.cask_list = c.cask_list \o b.cask_input,
                       !.appstore_list = c.appstore_list \o b.appstore_input,
                       !.main_list = c.main_list \o b.main_input,
                       !.file_list = c.file_list \o b.file_input]
    IN ExtendTapAttr(e, b.tap_input)

\* The tap directories of the machine (Library/Taps/<user>/homebrew-<repo>):
\* tapdir maps a tap that has a directory to the formulae and casks in it.
get_tap_packs(m, tap) ==
    IF tap \in DOMAIN m.tapdir THEN Sorted(m.tapdir[tap].packs) ELSE <<>>

get_tap_casks(m, tap) ==
    IF tap \in DOMAIN m.tapdir THEN Sorted(m.tapdir[tap].casks) ELSE <<>>

\* re.match("# *BREWFILE_ENDIGNORE", line), re.match("# *BREWFILE_IGNORE", line)
MatchMarker(line, word) ==
    /\ line # <<>>
    /\ Head(line) = "#"
    /\ LET rest == LStripSet(Tail(line), {SP})
       IN rest # <<>> /\ Head(rest) = word

\* re.match(" *$", line) and re.match(" *#", line)
IsBlank(line) == LStripSet(line, {SP}) = <<>>
IsComment(line) == LET r == LStripSet(line, {SP}) IN r # <<>> /\ Head(r) = "#"

\* re.sub("^ *appstore *", "", line)
SubAppstore(line) ==
    LET r == LStripSet(line, {SP})
    IN IF r # <<>> /\ Head(r) = "appstore" THEN LStripSet(Tail(r), {SP}) ELSE line

\* the form detected by read is kept only when none was detected or set before
DetectLast(form, f) == IF f = "none" THEN form ELSE f
Detect(form, f) == IF form = "none" THEN f ELSE form

\* One line of BrewInfo.read that is neither ignored, blank nor a comment.
\* st = [b, form, err]: the document, opt["form"], and the exception raised.

\* the directive cmd with its first argument p, the option string optstr and the
\* text excmd after the first token (lines 472-512)
ReadDirective(m, st, line, cmd, p, optstr) ==
    IF cmd \in {K_brew, K_install}
    THEN [st EXCEPT !.b = [st.b EXCEPT !.brew_input = Append(st.b.brew_input, p),
                                       !.brew_input_opt = Put(st.b.brew_input_opt, p, optstr)]]
    ELSE IF cmd = K_tap
    THEN [st EXCEPT !.b = [st.b EXCEPT !.tap_input = Append(st.b.tap_input, p)]]
    ELSE IF cmd = K_tapall
    THEN [st EXCEPT !.b = [st.b EXCEPT
                             !.tap_input = Append(st.b.tap_input, p),
                             !.brew_input = st.b.brew_input \o get_tap_packs(m, p),
                             !.brew_input_opt =
                                 Update(st.b.brew_input_opt,
                                        [x \in Range(get_tap_packs(m, p)) |-> <<>>]),
                             !.cask_input = st.b.cask_input \o get_tap_casks(m, p)]]
    ELSE IF cmd = K_cask
    THEN [st EXCEPT !.b = [st.b EXCEPT !.cask_input = Append(st.b.cask_input, p)]]
    ELSE IF cmd = K_mas /\ Has(line, ",")
    THEN IF Len(Split(line)) < 4
         THEN [st EXCEPT !.form = Detect(st.form, "bundle"), !.err = "IndexError"]
         ELSE [st EXCEPT !.form = Detect(st.form, "bundle"),
                         !.b = [st.b EXCEPT !.appstore_input =
                                   Append(st.b.appstore_input,
                                          Split(line)[4] \o S(SP)
                                          \o StripCh(StripCh(StripCh(Split(line)[2], ","), SQ),
                                                     DQ))]]
    ELSE IF cmd \in {K_appstore, K_mas}
    THEN [st EXCEPT !.b = [st.b EXCEPT !.appstore_input =
                              Append(st.b.appstore_input,
                                     StripCh(StripCh(Strip(SubAppstore(line)), SQ), DQ))]]
    ELSE IF cmd = K_main
    THEN [st EXCEPT !.b = [st.b EXCEPT !.main_input = Append(st.b.main_input, p),
                                       !.file_input = Append(st.b.file_input, p)]]
    ELSE IF cmd = K_file \/ Lower(cmd) = K_brewfile
    THEN [st EXCEPT !.b = [st.b EXCEPT !.file_input = Append(st.b.file_input, p)]]
    ELSE IF cmd = K_before
    THEN [st EXCEPT !.b = [st.b EXCEPT !.before_input =
                              Append(st.b.before_input, Strip(Join(Tail(Split(line)), S(SP))))]]
    ELSE IF cmd = K_after
    THEN [st EXCEPT !.b = [st.b EXCEPT !.after_input =
                              Append(st.b.after_input, Strip(Join(Tail(Split(line)), S(SP))))]]
    ELSE [st EXCEPT !.b = [st.b EXCEPT !.cmd_input = Append(st.b.cmd_input, Strip(line))]]

\* opt of read (lines 463-471): the tokens after the second one
IsArgs(args) == Len(args) > 2 /\ args[3] = K_args
OptString(args) ==
    IF Len(args) > 2
    THEN IF IsArgs(args)
         THEN S(SP) \o Strip(Join([i \in 1..(Len(args) - 3) |-> S("--") \o args[i + 3]], S(SP)))
         ELSE S(SP) \o Strip(Join(From(args, 3), S(SP)))
    ELSE <<>>

\* the form after the line: "args:" and a quoted brew, tap or tapall line are
\* of the bundle form (lines 464-467 and 474-477)
LineForm(form, args, line) ==
    Detect(IF IsArgs(args) THEN Detect(form, "bundle") ELSE form,
           IF args[1] \in {K_brew, K_tap, K_tapall} /\ (Has(line, DQ) \/ Has(line, SQ))
           THEN "bundle" ELSE "none")

ReadOpt(m, st, line, args) ==
    ReadDirective(m, [st EXCEPT !.form = LineForm(st.form, args, line)], line,
                  args[1], IF Len(args) > 1 THEN args[2] ELSE <<>>, OptString(args))

\* "brew install x" and "cask install x": the word install goes (lines 456-461)
IsPop1(args) == Len(args) > 2 /\ args[1] \in {K_brew, K_cask} /\ args[2] = K_install
ReadPop1(m, st, line, args) ==
    ReadOpt(m, IF IsPop1(args) THEN [st EXCEPT !.form = Detect(st.form, "cmd")] ELSE st, line,
            IF IsPop1(args) THEN <<args[1]>> \o From(args, 3) ELSE args)

\* "brew tap x" and "brew cask x": the first word goes (lines 450-455)
IsPop0(args) == Len(args) > 2 /\ args[2] \in {K_tap, K_cask}
ReadPop0(m, st, line, args) ==
    ReadPop1(m, IF IsPop0(args) THEN [st EXCEPT !.form = Detect(st.form, "cmd")] ELSE st, line,
             IF IsPop0(args) THEN Tail(args) ELSE args)

\* args of read (lines 446-449); args[0] of a line without a token raises
\* IndexError
ReadTokens(line) ==
    Split(Remove(Remove(Replace(Remove(Remove(line, SQ), DQ), ",", SP), "["), "]"))

ReadLine(m, st, line) ==
    IF ReadTokens(line) = <<>> THEN [st EXCEPT !.err = "IndexError"]
    ELSE ReadPop0(m, st, line, ReadTokens(line))

\* the loop of BrewInfo.read over the lines of the file; ign is is_ignore
IsIgnore(line, ign) ==
    IF MatchMarker(line, "BREWFILE_IGNORE") THEN TRUE
    ELSE IF MatchMarker(line, "BREWFILE_ENDIGNORE") THEN FALSE ELSE ign

RECURSIVE ReadLines(_, _, _, _)
ReadLines(m, st, lines, ign) ==
    IF lines = <<>> \/ st.err # "" THEN st
    ELSE ReadLines(m,
                   IF IsIgnore(Head(lines), ign) \/ IsBlank(Head(lines)) \/ IsComment(Head(lines))
                   THEN st ELSE ReadLine(m, st, Head(lines)),
                   Tail(lines), IsIgnore(Head(lines), ign))

\* BrewInfo.read: [b, form, err] after reading the file of b from the disk fs
BrewInfo_read(m, fs, b, form) ==
    IF b.filename \notin DOMAIN fs \/ fs[b.filename] = NoFile
    THEN [b |-> clear_input(b), form |-> form, err |-> ""]
    ELSE ReadLines(m, [b |-> [clear_input(b) EXCEPT !.tap_input = <<DIRECT>>],
                       form |-> form, err |-> ""],
                   fs[b.filename], FALSE)

-----------------------------------------------------------------------------
(* BrewInfo.sort and BrewInfo.write                                        *)

CORE_TAP == <<"homebrew", "/", "core">>
CASK_REPO == <<"homebrew", "/", "cask">>

IsBundle(form) == form \in {"brewdler", "bundle"}
IsCmd(form) == form \in {"command", "cmd"}

\* the sort key of appstore_list; x.split()[0] of an empty entry raises IndexError
AppKey(x) ==
    LET t == Split(x) IN IF Len(t) > 1 THEN Lower(t[2]) ELSE IF Len(t) = 1 THEN t[1] ELSE <<>>

SortTaps(taps) ==
    LET core == SelectSeq(taps, LAMBDA t : t = CORE_TAP)
        cask == SelectSeq(taps, LAMBDA t : t # CORE_TAP /\ t = CASK_REPO)
        brew == SelectSeq(taps, LAMBDA t : t # CORE_TAP /\ t # CASK_REPO
                                           /\ Len(t) >= 2 /\ t[1] = "homebrew" /\ t[2] = "/")
        other == SelectSeq(taps, LAMBDA t : t # CORE_TAP /\ t # CASK_REPO
                                            /\ ~(Len(t) >= 2 /\ t[1] = "homebrew" /\ t[2] = "/"))
    IN core \o Sorted(brew) \o cask \o Sorted(other)

\* BrewInfo.sort: self.tap_list is bound to a new list, which list_dic does not
\* name; the other lists are sorted in place, appstore_list last.  [b, err]
SortLists(b) ==
    [b EXCEPT !.tap_list = SortTaps(b.tap_list), !.tap_same = FALSE,
              !.brew_list = Sorted(b.brew_list),
              !.brew_full_list = Sorted(b.brew_full_list),
              !.cask_list = Sorted(b.cask_list),
              !.main_list = Sorted(b.main_list),
              !.file_list = Sorted(b.file_list),
              !.cask_nocask_list = Sorted(b.cask_nocask_list)]

SortApps(b) == [b EXCEPT !.appstore_list = SortBy(AppKey, b.appstore_list)]

BrewInfo_sort(b) ==
    IF \E i \in 1..Len(b.appstore_list) : Split(b.appstore_list[i]) = <<>>
    THEN [b |-> SortLists(b), err |-> "IndexError"]
    ELSE [b |-> SortApps(SortLists(b)), err |-> ""]

\* BrewInfo.packout, convert_option, mas_pack
packout(form, pack) == IF IsBundle(form) THEN S(SQ) \o pack \o S(SQ) ELSE pack

SubDashes(x) == IF x # <<>> /\ Head(x) = "--" THEN Tail(x) ELSE x

convert_option(form, o) ==
    IF o # <<>> /\ IsBundle(form)
    THEN LET t == Split(o)
         IN <<",", SP, "args:", SP, "[">>
            \o Join([i \in 1..Len(t) |-> S(SQ) \o SubDashes(t[i]) \o S(SQ)], <<",", SP>>)
            \o S("]")
    ELSE o

\* pack.split()[0] of an entry without a token raises IndexError (MasPackFails)
MasPackFails(form, pack) == IsBundle(form) /\ Split(pack) = <<>>
mas_pack(form, pack) ==
    IF IsBundle(form)
    THEN LET t == Split(pack)
         IN S(SQ) \o Join(Tail(t), S(SP)) \o <<SQ, ",", SP, "id:", SP>> \o t[1]
    ELSE pack

\* the command words of the three forms (write, lines 641-692)
CmdWords(form) ==
    IF IsBundle(form)
    THEN [before |-> <<"#", "before", SP>>, after |-> <<"#", "after", SP>>, other |-> S("#"),
          install |-> <<"brew", SP>>, tap |-> <<"tap", SP>>, cask |-> <<"cask", SP>>,
          cask_nocask |-> <<"#", "cask", SP>>, appstore |-> <<"mas", SP>>,
          main |-> <<"#", "main", SP>>, file |-> <<"#", "file", SP>>]
    ELSE IF IsCmd(form)
    THEN [before |-> <<>>, after |-> <<>>, other |-> <<>>,
          install |-> <<"brew", SP, "install", SP>>, tap |-> <<"brew", SP, "tap", SP>>,
          cask |-> <<"brew", SP, "install", SP>>,
          cask_nocask |-> <<"#", "brew", SP, "install", SP>>,
          appstore |-> <<"mas", SP, "purchase", SP>>,
          main |-> <<"#", "main", SP>>, file |-> <<"#", "file", SP>>]
    ELSE [before |-> <<"before", SP>>, after |-> <<"after", SP>>, other |-> <<>>,
          install |-> <<"brew", SP>>, tap |-> <<"tap", SP>>, cask |-> <<"cask", SP>>,
          cask_nocask |-> <<"#", "cask", SP>>, appstore |-> <<"appstore", SP>>,
          main |-> <<"main", SP>>, file |-> <<"file", SP>>]

\* output_prefix of the command form: the shebang and the ignored block that
\* installs Homebrew
OutputPrefix(form) ==
    IF IsCmd(form)
    THEN << <<"#", "!", "/", "usr", "/", "bin", "/", "env", SP, "bash">>,
            <<>>,
            <<"#", "BREWFILE_IGNORE">>,
            <<"if", SP, "!", SP, "which", SP, "brew", SP, ">&", SP, "/", "dev", "/", "null;then">>,
            <<SP, SP, "brew_installed=0">>,
            <<SP, SP, "echo", SP, "Homebrew", SP, "is", SP, "not", SP, "installed!">>,
            <<SP, SP, "echo", SP, "Install", SP, "now...">>,
            <<SP, SP, "echo", SP, "/", "bin", "/", "bash", SP, "-c", SP, "\\", DQ, "\\$\\(curl",
              SP, "-fsSL">>,
            <<"https:", "/", "/", "raw.githubusercontent.com", "/", "Homebrew", "/">>,
            <<"install", "/", "master", "/", "install.sh\\)\\", DQ, "\\">>,
            <<SP, SP, "/", "bin", "/", "bash", SP, "-c", SP, DQ, "$(curl", SP, "-fsSL">>,
            <<"https:", "/", "/", "raw.githubusercontent.com", "/", "Homebrew", "/">>,
            <<"install", "/", "master", "/", "install.sh)", DQ, "\\">>,
            <<SP, SP, "echo">>,
            <<"fi">>,
            <<"#", "BREWFILE_ENDIGNORE">>,
            <<>> >>
    ELSE <<>>

\* p.split("/")[-1].replace(".rb", ""); no identifier of the model holds ".rb"
BaseName(p) == Last(SplitCh(p, "/"))

\* first_tap_pack_write (lines 707-714)
first_tap_pack_write(form, isfirst, direct_first, isfirst_pack, tap) ==
    (IF isfirst
     THEN << <<>>, <<"#", SP, "tap", SP, "repositories", SP, "and", SP, "their", SP, "packages">> >>
     ELSE <<>>)
    \o (IF ~direct_first /\ isfirst_pack
        THEN << <<>>, CmdWords(form).tap \o packout(form, tap) >>
        ELSE <<>>)

\* the loop "for p in self.brew_list[:]" of one tap (lines 731-741).
\* w = [out, b, isfirst, direct_first, err]
RECURSIVE WriteTapPacks(_, _, _, _)
WriteTapPacks(form, w, tap_packs, ps) ==
    IF ps = <<>> \/ w.err # "" THEN w
    ELSE LET p == Head(ps) IN
         IF ~In(BaseName(p), tap_packs) THEN WriteTapPacks(form, w, tap_packs, Tail(ps))
         ELSE IF p \notin DOMAIN w.b.brew_list_opt
         THEN [w EXCEPT !.err = "KeyError",
                        !.out = w.out \o (IF w.direct_first
                                          THEN << <<>>, <<"#", "#", SP, "Direct", SP, "install">> >>
                                          ELSE <<>>)]
         ELSE WriteTapPacks(form,
                [w EXCEPT !.direct_first = FALSE,
                          !.out = w.out
                                  \o (IF w.direct_first
                                      THEN << <<>>, <<"#", "#", SP, "Direct", SP, "install">> >>
                                      ELSE <<>>)
                                  \o << CmdWords(form).install \o packout(form, p)
                                        \o convert_option(form, w.b.brew_list_opt[p]) >>,
                          !.b = [w.b EXCEPT !.brew_list = RemoveFirst(w.b.brew_list, p),
                                            !.brew_list_opt = Del(w.b.brew_list_opt, p)]],
                tap_packs, Tail(ps))

\* the loop "for p in self.cask_list[:]" of one tap (lines 745-751).
\* w = [out, b, isfirst, isfirst_pack, err]
RECURSIVE WriteTapCasks(_, _, _, _, _)
WriteTapCasks(form, w, tap, tap_casks, ps) ==
    IF ps = <<>> THEN w
    ELSE LET p == Head(ps) IN
         IF ~In(p, tap_casks) THEN WriteTapCasks(form, w, tap, tap_casks, Tail(ps))
         ELSE WriteTapCasks(form,
                [w EXCEPT !.isfirst = FALSE, !.isfirst_pack = FALSE,
                          !.out = w.out
                                  \o first_tap_pack_write(form, w.isfirst, FALSE, w.isfirst_pack, tap)
                                  \o << CmdWords(form).cask \o packout(form, p) >>,
                          !.b = [w.b EXCEPT !.cask_list = RemoveFirst(w.b.cask_list, p)]],
                tap, tap_casks, Tail(ps))

\* the formulae of one tap (lines 726-741); the result is
\* [out, b, isfirst, isfirst_pack, err]
PacksDone(x) ==
    [out |-> x.out, b |-> x.b, isfirst |-> FALSE, isfirst_pack |-> FALSE, err |-> x.err]

WriteTapBrews(o, form, w, t, tap_packs) ==
    IF o.caskonly
    THEN [out |-> w.out, b |-> w.b, isfirst |-> w.isfirst, isfirst_pack |-> TRUE, err |-> ""]
    ELSE PacksDone(WriteTapPacks(form,
                     [out |-> w.out \o first_tap_pack_write(form, w.isfirst, t = DIRECT, TRUE, t),
                      b |-> w.b, isfirst |-> FALSE, direct_first |-> t = DIRECT, err |-> ""],
                     tap_packs, w.b.brew_list))

\* the casks of one tap (lines 742-751)
WriteTapC(m, form, t, w1) ==
    IF ~m.is_mac \/ w1.err # "" THEN w1
    ELSE WriteTapCasks(form, w1, t, get_tap_casks(m, t), w1.b.cask_list)

TapDone(w2) == [out |-> w2.out, b |-> w2.b, isfirst |-> w2.isfirst, err |-> w2.err]

\* the loop "for t in self.tap_list" (lines 716-751).  w = [out, b, isfirst, err]
RECURSIVE WriteTaps(_, _, _, _, _)
WriteTaps(m, o, form, w, taps) ==
    IF taps = <<>> \/ w.err # "" THEN w
    ELSE IF Head(taps) = DIRECT /\ get_tap_packs(m, Head(taps)) = <<>>
    THEN WriteTaps(m, o, form, w, Tail(taps))
    ELSE WriteTaps(m, o, form,
                   TapDone(WriteTapC(m, form, Head(taps),
                                     WriteTapBrews(o, form, w, Head(taps),
                                                   get_tap_packs(m, Head(taps))))),
                   Tail(taps))

Banner(ws) == << <<>>, <<"#", SP>> \o Join([i \in 1..Len(ws) |-> S(ws[i])], S(SP)) >>

\* the sections of the output after the taps (lines 697-701 and 753-804)
WriteBefore(form, b) ==
    IF b.before_input # <<>>
    THEN << <<"#", SP, "Before", SP, "commands">> >>
         \o [i \in 1..Len(b.before_input) |-> CmdWords(form).before \o b.before_input[i]]
    ELSE <<>>

BrewKeyErr(o, c) ==
    ~o.caskonly /\ \E i \in 1..Len(c.brew_list) : c.brew_list[i] \notin DOMAIN c.brew_list_opt

WriteBrews(o, form, c) ==
    IF ~o.caskonly /\ c.brew_list # <<>> /\ ~BrewKeyErr(o, c)
    THEN Banner(<<"Other", "Homebrew", "packages">>)
         \o [i \in 1..Len(c.brew_list) |->
                CmdWords(form).install \o packout(form, c.brew_list[i])
                \o convert_option(form, c.brew_list_opt[c.brew_list[i]])]
    ELSE <<>>

WriteCasks(m, form, c) ==
    IF m.is_mac /\ c.cask_list # <<>>
    THEN Banner(<<"Other", "Cask", "applications">>)
         \o [i \in 1..Len(c.cask_list) |-> CmdWords(form).cask \o packout(form, c.cask_list[i])]
    ELSE <<>>

WriteNoCask(m, form, c) ==
    IF m.is_mac /\ c.cask_nocask_list # <<>>
    THEN << <<>>,
            <<"#", SP, "Below", SP, "applications", SP, "were", SP, "installed",
              SP, "by", SP, "Cask", ",">>,
            <<"#", SP, "but", SP, "do", SP, "not", SP, "have", SP, "corresponding", SP, "casks.">>,
            <<>> >>
         \o [i \in 1..Len(c.cask_nocask_list) |->
                CmdWords(form).cask_nocask \o packout(form, c.cask_nocask_list[i])]
    ELSE <<>>

MasErr(m, o, form, c) ==
    /\ m.is_mac /\ o.appstore # 0
    /\ \E i \in 1..Len(c.appstore_list) : MasPackFails(form, c.appstore_list[i])

WriteApps(m, o, form, c) ==
    IF m.is_mac /\ o.appstore # 0 /\ c.appstore_list # <<>> /\ ~MasErr(m, o, form, c)
    THEN Banner(<<"App", "Store", "applications">>)
         \o [i \in 1..Len(c.appstore_list) |->
                CmdWords(form).appstore \o mas_pack(form, c.appstore_list[i])]
    ELSE <<>>

WriteMain(form, c) ==
    IF c.main_list # <<>>
    THEN Banner(<<"Main", "file">>)
         \o [i \in 1..Len(c.main_list) |-> CmdWords(form).main \o packout(form, c.main_list[i])]
    ELSE <<>>

OtherFiles(c) == SelectSeq(c.file_list, LAMBDA f : ~In(f, c.main_list))

WriteFiles(form, c) ==
    IF Len(c.file_list) > Len(c.main_list)
    THEN Banner(<<"Additional", "files">>)
         \o [i \in 1..Len(OtherFiles(c)) |->
                CmdWords(form).file \o packout(form, OtherFiles(c)[i])]
    ELSE <<>>

WriteCmds(form, c) ==
    IF c.cmd_input # <<>>
    THEN Banner(<<"Other", "commands">>)
         \o [i \in 1..Len(c.cmd_input) |-> CmdWords(form).other \o c.cmd_input[i]]
    ELSE <<>>

WriteAfter(form, c) ==
    IF c.after_input # <<>>
    THEN Banner(<<"After", "commands">>)
         \o [i \in 1..Len(c.after_input) |-> CmdWords(form).after \o c.after_input[i]]
    ELSE <<>>

\* the output of write; w = [out, b, isfirst, err] is the result of the tap loop
WriteOutput(m, o, w) ==
    w.out \o WriteBrews(o, o.form, w.b) \o WriteCasks(m, o.form, w.b)
    \o WriteNoCask(m, o.form, w.b) \o WriteApps(m, o, o.form, w.b) \o WriteMain(o.form, w.b)
    \o WriteFiles(o.form, w.b) \o WriteCmds(o.form, w.b) \o WriteAfter(o.form, w.b)

\* the exception write ends with, "" when it returns
WriteErr(m, o, st, w) ==
    IF st.err # "" THEN st.err
    ELSE IF w.err # "" THEN w.err
    ELSE IF BrewKeyErr(o, w.b) THEN "KeyError"
    ELSE IF MasErr(m, o, o.form, w.b) THEN "IndexError"
    ELSE ""

WriteResult(m, o, b0, st, w) ==
    [b |-> IF st.err # "" THEN b0 ELSE w.b,
     text |-> IF WriteErr(m, o, st, w) = "" /\ WriteOutput(m, o, w) # <<>>
              THEN OutputPrefix(o.form) \o WriteOutput(m, o, w) ELSE NoFile,
     err |-> WriteErr(m, o, st, w)]

\* write after self.sort(); st = [b, err] is the result of sort
WriteSorted(m, o, b0, st) ==
    WriteResult(m, o, b0, st,
                IF st.b.tap_list # <<>> /\ st.err = ""
                THEN WriteTaps(m, o, o.form,
                               [out |-> WriteBefore(o.form, st.b), b |-> st.b,
                                isfirst |-> TRUE, err |-> ""],
                               st.b.tap_list)
                ELSE [out |-> WriteBefore(o.form, st.b), b |-> st.b, isfirst |-> TRUE,
                      err |-> ""])

\* BrewInfo.write: [b, text, err].  text is the new content of the file, or NoFile
\* when nothing is written: the output is empty or an exception was raised.  m is
\* the machine, o the options.
BrewInfo_write(m, o, b0) == WriteSorted(m, o, b0, BrewInfo_sort(b0))

-----------------------------------------------------------------------------
(* The machine: what the external commands report and change               *)

\* brew list --formula, and the keys of brew info --json=v1 --installed
FullList(m) == SortedSet(DOMAIN m.info)

\* brew leaves: the installed packages no installed package depends on
Leaves(m) ==
    SelectSeq(FullList(m),
              LAMBDA p : \A q \in DOMAIN m.info : ~In(p, m.info[q].deps))

\* BrewInfo.get_leaves: the last path component of each line
get_leaves(m) == [i \in 1..Len(Leaves(m)) |-> BaseName(Leaves(m)[i])]

\* BrewInfo.get_option for an installed package (lines 597-614): the used
\* options, then --HEAD when the installed version is the head version
get_option(m, p) ==
    (IF m.info[p].used_options # <<>>
     THEN S(SP) \o Join(m.info[p].used_options, S(SP)) ELSE <<>>)
    \o (IF m.info[p].head THEN <<SP, "--", "HEAD">> ELSE <<>>)

\* mas list prints "<id> <name> (<version>)"; the receipts found without mas
\* give "<id> <name>" (get_appstore_list, lines 1504-1533)
AppLine(a, withver) ==
    S(a.id) \o S(SP) \o a.name \o (IF withver THEN <<SP, a.ver>> ELSE <<>>)

AppNameKey(x) == Lower(Join(Tail(Split(x)), S(SP)))

get_appstore_list(m, is_mas_cmd) ==
    IF is_mas_cmd = 1
    THEN SortBy(AppNameKey, [i \in 1..Len(m.apps) |-> AppLine(m.apps[i], TRUE)])
    ELSE [i \in 1..Len(m.apps) |-> AppLine(m.apps[i], FALSE)]

\* check_mas_cmd(True) on a Mac where mas is installed and signed in (1), or
\* where the system is too old for mas (-1)
check_mas_cmd(m, o) == IF o.is_mas_cmd # 0 THEN o.is_mas_cmd ELSE IF m.mas = "ok" THEN 1 ELSE -1

-----------------------------------------------------------------------------
(* BrewFile: the manifest graph                                            *)

\* list_dic[name]: the attribute of the same name, but for tap_list
Dic(name) == IF name = "tap_list" THEN "tap_dic" ELSE name

\* BrewFile.get for a list and for a dictionary
GetL(D, mn, ex, name, only_ext) ==
    (IF only_ext THEN <<>> ELSE D[mn][Dic(name)])
    \o Concat([i \in 1..Len(ex) |-> D[ex[i]][Dic(name)]])

RECURSIVE UpdateAll(_, _)
UpdateAll(d, ds) == IF ds = <<>> THEN d ELSE UpdateAll(Update(d, Head(ds)), Tail(ds))

\* the merged dictionary with the main document's entries applied last
GetDMainLast(D, mn, ex, name, only_ext) ==
    Update(UpdateAll(EmptyDict, [i \in 1..Len(ex) |-> D[ex[i]][name]]),
           IF only_ext THEN EmptyDict ELSE D[mn][name])

GetD(D, mn, ex, name, only_ext) ==
    UpdateAll(IF only_ext THEN EmptyDict ELSE D[mn][name],
              [i \in 1..Len(ex) |-> D[ex[i]][name]])

get(name) == GetL(docs, main, ext, name, FALSE)
getd(name) == GetD(docs, main, ext, name, FALSE)

\* os.path.dirname and os.path.isabs; expandpath leaves a path without '~' and
\* '$' as it is
DirName(path) ==
    IF ~Has(path, "/") THEN <<>>
    ELSE LET k == CHOOSE i \in 1..Len(path) :
                      path[i] = "/" /\ \A j \in (i + 1)..Len(path) : path[j] # "/"
             d == RStripSet(SubSeq(path, 1, k - 1), {"/"})
         IN IF d = <<>> THEN S("/") ELSE d

IsAbs(path) == path # <<>> /\ Head(path) = "/"

\* the path of an included file (BrewFile.read, lines 1058-1067)
IncludePath(b, f) ==
    IF IsAbs(f) THEN f
    ELSE LET this_dir == DirName(b.filename)
             path_prefix == IF this_dir = <<>> THEN <<".", "/">> ELSE this_dir \o S("/")
         IN path_prefix \o LStripSet(f, {".", "/"})

\* the depth of calls of BrewFile.read at which the interpreter raises
\* RecursionError (sys.getrecursionlimit(), scaled down)
MaxDepth == 4

\* a call of read that takes every document for the main one
FrameAlwaysMain(k, b, is_main) ==
    [b |-> k, files |-> b.file_input, mains |-> b.main_input, i |-> 1, main |-> k]

Frame(k, b, is_main) ==
    [b |-> k, files |-> b.file_input, mains |-> b.main_input, i |-> 1,
     main |-> IF is_main THEN k ELSE 0]

\* the position of the process: at names the operation under way, ph and i the
\* place in it, then the operations that follow it (the callers to return to)
At(at, then) == [at |-> at, ph |-> "", i |-> 1, then |-> then, reinit |-> FALSE]
Crash(e) == [at |-> "crash", ph |-> e, i |-> 1, then |-> <<>>, reinit |-> FALSE]
Exit(code) == [at |-> "exit", ph |-> code, i |-> 1, then |-> <<>>, reinit |-> FALSE]
\* main() catches KeyboardInterrupt and calls sys.exit(1) (lines 3028-3031)
Interrupted == [at |-> "exit", ph |-> "1", i |-> 1, then |-> <<"KeyboardInterrupt">>,
                reinit |-> FALSE]
\* the operation is over: the next one starts, or execute() calls sys.exit(0)
Next1 == IF pc.then = <<>> THEN Exit("0") ELSE At(Head(pc.then), Tail(pc.then))

\* read_all up to the call of read(self.brewinfo, is_main=True), which reads the
\* root file (lines 1030-1034)
ReadAll ==
    /\ pc.at = "read_all"
    /\ IF opt.read THEN
           /\ pc' = Next1
           /\ UNCHANGED <<files, sys, opt, docs, ext, main, stack, log, run, cfg, base>>
       ELSE
           \E r \in {BrewInfo_read(sys, files, docs[1], opt.form)} :
           /\ docs' = [docs EXCEPT ![1] = r.b]
           /\ opt' = [opt EXCEPT !.form = r.form]
           /\ ext' = <<1>>
           /\ IF r.err # ""
              THEN /\ pc' = Crash(r.err)
                   /\ stack' = stack
              ELSE /\ pc' = At("read", pc.then)
                   /\ stack' = <<Frame(1, r.b, TRUE)>>
           /\ UNCHANGED <<files, sys, main, log, run, cfg, base>>

\* one turn of the loop "for f in files['ext']" of BrewFile.read: the included
\* document is created, appended to brewinfo_ext and read by a nested call
ReadInclude ==
    /\ pc.at = "read"
    /\ stack # <<>>
    /\ LET t == Last(stack) IN
       /\ t.i <= Len(t.files)
       /\ \E r \in {BrewInfo_read(sys, files,
                                    NewBrewInfo(IncludePath(docs[t.b], t.files[t.i])), opt.form)} :
          LET k == Len(docs) + 1
              as_main == t.main # 0 /\ In(t.files[t.i], t.mains)
              t1 == [t EXCEPT !.main = IF as_main THEN k ELSE t.main]
          IN
          /\ docs' = Append(docs, r.b)
          /\ ext' = Append(ext, k)
          /\ opt' = [opt EXCEPT !.form = r.form]
          /\ IF Len(stack) >= MaxDepth
             THEN /\ pc' = Crash("RecursionError")
                  /\ stack' = stack
             ELSE IF r.err # ""
             THEN /\ pc' = Crash(r.err)
                  /\ stack' = stack
             ELSE /\ pc' = pc
                  /\ stack' = Append([stack EXCEPT ![Len(stack)] = t1], Frame(k, r.b, as_main))
    /\ UNCHANGED <<files, sys, main, log, run, cfg, base>>

\* a nested call of BrewFile.read returns: "if main_tmp is not None: main = main_tmp"
ReadReturn ==
    /\ pc.at = "read"
    /\ Len(stack) > 1
    /\ LET t == Last(stack)
           u == stack[Len(stack) - 1]
       IN /\ t.i > Len(t.files)
          /\ stack' = Append(SubSeq(stack, 1, Len(stack) - 2),
                             [u EXCEPT !.i = u.i + 1,
                                       !.main = IF t.main # 0 THEN t.main ELSE u.main])
    /\ UNCHANGED <<files, sys, opt, docs, ext, main, pc, log, run, cfg, base>>

\* the outermost call returns and read_all finishes (lines 1034-1047); the
\* formulae of mas and reattach-to-user-namespace are declared in main when this
\* process installed them
AddFormula(D, mn, ex, flag, p) ==
    IF flag /\ ~In(p, GetL(D, mn, ex, "brew_input", FALSE))
    THEN [D EXCEPT ![mn].brew_input = Append(D[mn].brew_input, p),
                   ![mn].brew_input_opt = Put(D[mn].brew_input_opt, p, <<>>)]
    ELSE D

ReadAllEnd ==
    /\ pc.at = "read"
    /\ Len(stack) = 1
    /\ LET t == stack[1]
           ex == RemoveFirst(ext, t.main)
           D1 == AddFormula(docs, t.main, ex, opt.mas_cmd_installed, S("mas"))
           D2 == AddFormula(D1, t.main, ex, opt.reattach_cmd_installed,
                            S("reattach-to-user-namespace"))
       IN /\ t.i > Len(t.files)
          /\ main' = t.main
          /\ ext' = ex
          /\ docs' = D2
    /\ stack' = <<>>
    /\ opt' = [opt EXCEPT !.read = TRUE]
    /\ pc' = Next1
    /\ UNCHANGED <<files, sys, log, run, cfg, base>>

-----------------------------------------------------------------------------
(* get_list: the probe of the installed state (lines 1548-1615)            *)

\* one external command and its exit status
Entry(kind, id, ret) == [run |-> run, kind |-> kind, id |-> id, ret |-> ret]

\* helper.proc with exit_on_err: a status other than 0 ends the process
AfterProc(ret, exit_on_err, ok) == IF ret # 0 /\ exit_on_err THEN Exit("1") ELSE ok

\* the filter without the always-keep list
FilterListNoTop(m, o) ==
    IF o.on_request
    THEN SelectSeq(FullList(m), LAMBDA p : m.info[p].on_request \in {"True", "None"})
    ELSE IF o.leaves THEN get_leaves(m) ELSE FullList(m)

\* the packages kept by the filter: on_request, else leaves, else all; then the
\* installed packages of top_packages
FilterList(m, o) ==
    LET full == FullList(m)
        l0 == IF o.on_request
              THEN SelectSeq(full, LAMBDA p : m.info[p].on_request \in {"True", "None"})
              ELSE IF o.leaves THEN get_leaves(m) ELSE full
        tops == SelectSeq(o.top_packages, LAMBDA p : p # <<>> /\ In(p, full) /\ ~In(p, l0))
    IN l0 \o tops

\* the lines of brew list --cask with one token are casks, the others go to
\* cask_nocask_list
ProbeLists(m, o, b0, force) ==
    LET b == clear_list(b0)
        full == FullList(m)
        keep == FilterList(m, o)
        bl == SelectSeq(full, LAMBDA p : In(p, keep))
        b1 == IF o.caskonly THEN b
              ELSE [b EXCEPT !.brew_full_list = full,
                             !.brew_list = bl,
                             !.brew_list_opt = [p \in Range(bl) |-> get_option(m, p)]]
        b2 == SetTapDic(b1, AddNew(m.taps, <<DIRECT>>))
        b3 == IF m.is_mac
              THEN [b2 EXCEPT !.cask_list = SelectSeq(m.casks, LAMBDA c : Len(Split(c)) = 1),
                              !.cask_nocask_list =
                                  SelectSeq(m.casks, LAMBDA c : Len(Split(c)) # 1)]
              ELSE b2
    IN IF m.is_mac /\ (o.appstore = 1 \/ (o.appstore = 2 /\ force))
       THEN [b3 EXCEPT !.appstore_list = get_appstore_list(m, check_mas_cmd(m, o))]
       ELSE b3

\* the queries of get_list: brew info --json=v1 --installed, brew list
\* --formula, brew leaves, brew tap, brew list --cask, mas list
Queries(o, probe) ==
    (IF o.caskonly THEN {} ELSE {"info", "list"})
    \cup (IF ~o.caskonly /\ ~o.on_request /\ o.leaves THEN {"leaves"} ELSE {})
    \cup {"tap", "cask"}
    \cup (IF probe /\ check_mas_cmd(sys, o) = 1 THEN {"mas"} ELSE {})

\* what the probe sees when the query q gives no line
QueryResult(m, q) ==
    CASE q \in {"info", "list", "leaves"} -> [m EXCEPT !.info = [x \in {} |-> <<>>]]
      [] q = "tap" -> [m EXCEPT !.taps = <<>>]
      [] q = "cask" -> [m EXCEPT !.casks = <<>>]
      [] q = "mas" -> [m EXCEPT !.apps = <<>>]
      [] OTHER -> m

\* the queries run without a value for exit_on_err
QueryContinues == FALSE

\* exit_on_err of the queries: the default of proc (lines 177 and 999), and
\* the value get_info passes (line 566)
QueryExitOnErr == TRUE

\* get_list(force_appstore_list); with appstore = 2 and no force the store apps
\* are taken from the manifest, which is read first when the root file exists.
\* q is the query that exits non-zero, "none" when every query succeeds.
GetList ==
    /\ pc.at \in {"get_list", "get_list_force"}
    /\ LET force == pc.at = "get_list_force"
           probe == sys.is_mac /\ (opt.appstore = 1 \/ (opt.appstore = 2 /\ force))
           go == IF sys.is_mac /\ ~probe /\ opt.appstore = 2
                 THEN IF files[docs[1].filename] # NoFile
                      THEN At("read_all", <<"get_list_tail">> \o pc.then)
                      ELSE At("get_list_tail", pc.then)
                 ELSE Next1
       IN \E q \in {"none"} \cup Queries(opt, probe) :
          /\ log' = IF q = "none" THEN log ELSE Append(log, Entry("query", S(q), 1))
          /\ pc' = IF q = "none" THEN go ELSE AfterProc(1, QueryExitOnErr, go)
          /\ IF pc'.at = "exit"
             THEN UNCHANGED <<docs, opt>>
             ELSE /\ docs' = [docs EXCEPT ![1] = ProbeLists(QueryResult(sys, q), opt,
                                                            docs[1], force)]
                  /\ opt' = IF probe
                            THEN [opt EXCEPT !.is_mas_cmd = check_mas_cmd(sys, opt)]
                            ELSE opt
    /\ UNCHANGED <<files, sys, ext, main, stack, run, cfg, base>>

\* self.brewinfo.set_val("appstore_list", self.get("appstore_input"))
GetListTail ==
    /\ pc.at = "get_list_tail"
    /\ docs' = [docs EXCEPT ![1].appstore_list = get("appstore_input")]
    /\ pc' = Next1
    /\ UNCHANGED <<files, sys, opt, ext, main, stack, log, run, cfg, base>>

-----------------------------------------------------------------------------
(* clean_list, list_to_main, input_to_list, write                          *)

\* "for p in b.get(x_input): if p not in self.brewinfo.get(x_list): b.remove(...)"
\* removes one occurrence for each occurrence that is not in the root's list
DropNotListed(b, root) ==
    [b EXCEPT !.brew_input = SelectSeq(b.brew_input, LAMBDA p : In(p, root.brew_list)),
              !.tap_input = SelectSeq(b.tap_input, LAMBDA p : In(p, root.tap_dic)),
              !.cask_input = SelectSeq(b.cask_input, LAMBDA p : In(p, root.cask_list)),
              !.appstore_input =
                  SelectSeq(b.appstore_input, LAMBDA p : In(p, root.appstore_list))]

\* BrewFile.list_to_main (lines 1078-1087)
list_to_main(D, mn) ==
    IF mn = 1 THEN D
    ELSE LET r == D[1]
             b == D[mn]
             c == [b EXCEPT !.brew_list = AddNew(b.brew_list, r.brew_list),
                            !.brew_full_list = AddNew(b.brew_full_list, r.brew_list),
                            !.cask_list = AddNew(b.cask_list, r.cask_list),
                            !.cask_nocask_list = AddNew(b.cask_nocask_list, r.cask_list),
                            !.appstore_list = AddNew(b.appstore_list, r.appstore_list),
                            !.brew_list_opt = Update(b.brew_list_opt, r.brew_list_opt)]
         IN [D EXCEPT ![mn] = SetTapDic(c, AddNew(b.tap_dic, r.tap_list))]

\* clean_list without the loop over main's lists
KeepDeclaredInExt(D, mn, ex) == D

\* the loop over main's lists, and over tap_list as well
DropDeclaredTaps(D, mn, ex) ==
    [D EXCEPT ![mn] =
        SetTapDic([D[mn] EXCEPT
                      !.brew_list = SelectSeq(D[mn].brew_list,
                          LAMBDA p : ~In(p, GetL(D, mn, ex, "brew_input", TRUE))),
                      !.cask_list = SelectSeq(D[mn].cask_list,
                          LAMBDA p : ~In(p, GetL(D, mn, ex, "cask_input", TRUE))),
                      !.cask_nocask_list = SelectSeq(D[mn].cask_nocask_list,
                          LAMBDA p : ~In(p, GetL(D, mn, ex, "cask_input", TRUE))),
                      !.appstore_list = SelectSeq(D[mn].appstore_list,
                          LAMBDA p : ~In(p, GetL(D, mn, ex, "appstore_input", TRUE)))],
                  SelectSeq(D[mn].tap_dic,
                            LAMBDA p : ~In(p, GetL(D, mn, ex, "tap_input", TRUE))))]

\* the loop that removes from main's lists what an extra file declares
\* (lines 1633-1640); tap_list is left as it is
DropDeclaredInExt(D, mn, ex) ==
    LET b == D[mn]
        inExt(name, p) == In(p, GetL(D, mn, ex, name, TRUE))
    IN [D EXCEPT ![mn] =
          [b EXCEPT !.brew_list = SelectSeq(b.brew_list, LAMBDA p : ~inExt("brew_input", p)),
                    !.cask_list = SelectSeq(b.cask_list, LAMBDA p : ~inExt("cask_input", p)),
                    !.cask_nocask_list =
                        SelectSeq(b.cask_nocask_list, LAMBDA p : ~inExt("cask_input", p)),
                    !.appstore_list =
                        SelectSeq(b.appstore_list, LAMBDA p : ~inExt("appstore_input", p))]]

\* BrewFile.input_to_list
input_to_list(D, mn, ex, only_ext) ==
    [k \in 1..Len(D) |->
        IF (k = mn /\ ~only_ext) \/ In(k, ex) THEN BrewInfo_input_to_list(D[k]) ELSE D[k]]

\* BrewFile.clean_list (lines 1617-1647)
clean_list(D, mn, ex) ==
    LET D1 == [k \in 1..Len(D) |->
                  IF k = mn \/ In(k, ex) THEN DropNotListed(D[k], D[1]) ELSE D[k]]
        D2 == list_to_main(D1, mn)
        D3 == DropDeclaredInExt(D2, mn, ex)
        D4 == [D3 EXCEPT ![mn].main_list = AddNew(D3[mn].main_list, D3[mn].main_input),
                         ![mn].file_list = AddNew(D3[mn].file_list, D3[mn].file_input)]
    IN input_to_list(D4, mn, ex, TRUE)

CleanList ==
    /\ pc.at = "clean_list"
    /\ docs' = clean_list(docs, main, ext)
    /\ pc' = Next1
    /\ UNCHANGED <<files, sys, opt, ext, main, stack, log, run, cfg, base>>

\* BrewFile.write: main is written first, then every document of brewinfo_ext;
\* pc.i = 1 is main, pc.i = k + 1 is ext[k]
WriteTarget == IF pc.i = 1 THEN main ELSE ext[pc.i - 1]

\* the files after BrewInfo.write of the document k with the result w
Written(k, w) ==
    IF w.text = NoFile THEN files
    ELSE [f \in DOMAIN files \cup {docs[k].filename} |->
             IF f = docs[k].filename THEN w.text ELSE files[f]]

WriteDoc ==
    /\ pc.at = "write"
    /\ pc.i <= Len(ext) + 1
    /\ \E k \in {WriteTarget}, w \in {BrewInfo_write(sys, opt, docs[WriteTarget])} :
          /\ docs' = [docs EXCEPT ![k] = w.b]
          /\ files' = Written(k, w)
          /\ pc' = IF w.err # "" THEN Crash(w.err) ELSE [pc EXCEPT !.i = pc.i + 1]
    /\ UNCHANGED <<sys, opt, ext, main, stack, log, run, cfg, base>>

\* the user interrupts the run while the chmod that follows the writing of
\* the file is running (BrewInfo.write, lines 806-822)
WriteInterrupt ==
    /\ pc.at = "write"
    /\ pc.i <= Len(ext) + 1
    /\ \E k \in {WriteTarget}, w \in {BrewInfo_write(sys, opt, docs[WriteTarget])} :
          /\ docs' = [docs EXCEPT ![k] = w.b]
          /\ files' = Written(k, w)
          /\ pc' = IF w.err # "" THEN Crash(w.err) ELSE Interrupted
    /\ UNCHANGED <<sys, opt, ext, main, stack, log, run, cfg, base>>

\* the user interrupts the run while a query of the installed state or a
\* command of install or cleanup is running: the command has no effect
Interrupt ==
    /\ pc.at \in {"get_list", "get_list_force", "install", "cleanup"}
    /\ pc' = Interrupted
    /\ UNCHANGED <<files, sys, opt, docs, ext, main, stack, log, run, cfg, base>>

\* initialize_write after the last document
WriteEnd ==
    /\ pc.at = "write"
    /\ pc.i > Len(ext) + 1
    /\ opt' = [opt EXCEPT !.initialized = TRUE]
    /\ pc' = Next1
    /\ UNCHANGED <<files, sys, docs, ext, main, stack, log, run, cfg, base>>

-----------------------------------------------------------------------------
(* execute, initialize                                                     *)

\* BrewInfo.remove for a list: list_dic[name].remove(package)
BrewInfo_remove(b, name, p) ==
    IF name = "tap_list" THEN SetTapDic(b, RemoveFirst(b.tap_dic, p))
    ELSE [b EXCEPT ![name] = RemoveFirst(b[name], p)]

\* BrewFile.remove_pack (lines 1116-1122): main when main's list holds the
\* package, else every document of brewinfo_ext whose list holds it
remove_pack(D, mn, ex, name, p) ==
    IF In(p, D[mn][Dic(name)])
    THEN [D EXCEPT ![mn] = BrewInfo_remove(D[mn], name, p)]
    ELSE [k \in 1..Len(D) |->
             IF In(k, ex) /\ In(p, D[k][Dic(name)])
             THEN BrewInfo_remove(D[k], name, p) ELSE D[k]]

RootExists == files[docs[1].filename] # NoFile

\* execute() for the commands init, get_files, update, clean_non_request, clean (up to
\* cleanup's calls of get_list and read_all) and install, after
\* check_input_file() found the root file.  No repository is set.
Start ==
    /\ pc.at = "start"
    /\ opt.command = "init" \/ RootExists
    /\ base' = [sys |-> sys, files |-> files]
    /\ pc' = CASE opt.command = "init" -> At("initialize", <<>>)
               [] opt.command = "get_files" -> At("read_all", <<>>)
               [] opt.command = "update" -> At("update", <<>>)
               [] opt.command = "clean_non_request" -> At("clean_non_request", <<>>)
               [] opt.command = "clean" -> At("get_list", <<"read_all", "cleanup">>)
               [] opt.command = "install" -> At("get_list_force", <<"read_all", "install">>)
    /\ UNCHANGED <<files, sys, opt, docs, ext, main, stack, log, run, cfg>>

\* initialize(): the user lets an existing file be overwritten (input_backup);
\* get_list, then read_all when the root file exists, clean_list and the write
Initialize ==
    /\ pc.at = "initialize"
    /\ pc' = IF opt.initialized THEN Next1
             ELSE At("get_list", <<"init_read", "clean_list", "write">> \o pc.then)
    /\ UNCHANGED <<files, sys, opt, docs, ext, main, stack, log, run, cfg, base>>

InitRead ==
    /\ pc.at = "init_read"
    /\ pc' = IF RootExists THEN At("read_all", pc.then) ELSE Next1
    /\ UNCHANGED <<files, sys, opt, docs, ext, main, stack, log, run, cfg, base>>

-----------------------------------------------------------------------------
(* install (lines 1973-2095)                                               *)

\* exit_on_err of the calls self.proc(...) of install: the default of
\* BrewFile.proc (line 999)
InstallExitOnErr == TRUE

Step == [pc EXCEPT !.i = pc.i + 1]

\* the loops of install without the tap loop and the cask loop
InstallPhasesOfPackages == <<"before", "brew", "mas", "cmd", "after">>

InstallPhases == <<"before", "tap", "cask", "brew", "mas", "cmd", "after">>

PhaseList(ph) ==
    CASE ph = "before" -> get("before_input")
      [] ph = "tap" -> get("tap_input")
      [] ph = "cask" -> IF sys.is_mac THEN get("cask_input") ELSE <<>>
      [] ph = "brew" -> IF ~opt.caskonly THEN get("brew_input") ELSE <<>>
      [] ph = "mas" -> IF sys.is_mac /\ opt.appstore # 0 THEN get("appstore_input") ELSE <<>>
      [] ph = "cmd" -> get("cmd_input")
      [] ph = "after" -> get("after_input")

InstallBegin ==
    /\ pc.at = "install"
    /\ pc.ph = ""
    /\ pc' = [pc EXCEPT !.ph = "before", !.i = 1]
    /\ UNCHANGED <<files, sys, opt, docs, ext, main, stack, log, run, cfg, base>>

\* a loop of install is over: the next one starts
InstallNextPhase ==
    /\ pc.at = "install"
    /\ pc.ph \in Range(InstallPhases)
    /\ pc.i > Len(PhaseList(pc.ph))
    /\ pc' = [pc EXCEPT !.i = 1,
                        !.ph = IF pc.ph = "after" THEN "finish"
                               ELSE InstallPhases[1 + CHOOSE k \in 1..Len(InstallPhases) :
                                                          InstallPhases[k] = pc.ph]]
    /\ UNCHANGED <<files, sys, opt, docs, ext, main, stack, log, run, cfg, base>>

\* "for c in self.get(...): self.proc(c)" for the before, other and after commands
InstallRun ==
    /\ pc.at = "install"
    /\ pc.ph \in {"before", "cmd", "after"}
    /\ pc.i <= Len(PhaseList(pc.ph))
    /\ \E ret \in {0, 1} :
          /\ log' = Append(log, Entry(pc.ph, PhaseList(pc.ph)[pc.i], ret))
          /\ pc' = AfterProc(ret, InstallExitOnErr, Step)
    /\ UNCHANGED <<files, sys, opt, docs, ext, main, stack, run, cfg, base>>

\* the tap loop (lines 1989-1992)
InstallTap ==
    /\ pc.at = "install"
    /\ pc.ph = "tap"
    /\ pc.i <= Len(PhaseList("tap"))
    /\ LET p == PhaseList("tap")[pc.i] IN
       IF In(p, get("tap_list")) \/ p = DIRECT
       THEN /\ pc' = Step
            /\ UNCHANGED <<sys, log>>
       ELSE \E ret \in {0, 1} :
               /\ log' = Append(log, Entry("tap", p, ret))
               /\ sys' = IF ret = 0 THEN [sys EXCEPT !.taps = AddNew(sys.taps, <<p>>)] ELSE sys
               /\ pc' = AfterProc(ret, InstallExitOnErr, Step)
    /\ UNCHANGED <<files, opt, docs, ext, main, stack, run, cfg, base>>

\* the cask loop (lines 1995-1999)
InstallCask ==
    /\ pc.at = "install"
    /\ pc.ph = "cask"
    /\ pc.i <= Len(PhaseList("cask"))
    /\ LET p == PhaseList("cask")[pc.i] IN
       IF In(p, get("cask_list"))
       THEN /\ pc' = Step
            /\ UNCHANGED <<sys, log>>
       ELSE \E ret \in {0, 1} :
               /\ log' = Append(log, Entry("cask", p, ret))
               /\ sys' = IF ret = 0 THEN [sys EXCEPT !.casks = AddNew(sys.casks, <<p>>)] ELSE sys
               /\ pc' = AfterProc(ret, InstallExitOnErr, Step)
    /\ UNCHANGED <<files, opt, docs, ext, main, stack, run, cfg, base>>

\* sorted(a.split()) == sorted(b.split())
SameOptions(a, b) == Sorted(Split(a)) = Sorted(Split(b))

\* the decision without the test "p not in self.get('brew_list_opt')"
BrewVerbUnfiltered(p) ==
    IF In(p, get("brew_full_list"))
    THEN IF p \in DOMAIN getd("brew_list_opt")
            /\ SameOptions(getd("brew_input_opt")[p], getd("brew_list_opt")[p])
         THEN "skip" ELSE "reinstall"
    ELSE "install"

\* what the brew loop decides for p (lines 2005-2012): "skip", "install" or
\* "reinstall"
BrewVerb(p) ==
    IF In(p, get("brew_full_list"))
    THEN IF p \notin DOMAIN getd("brew_list_opt")
            \/ SameOptions(getd("brew_input_opt")[p], getd("brew_list_opt")[p])
         THEN "skip" ELSE "reinstall"
    ELSE "install"

\* brew install / brew reinstall of p with the option string o took effect: the
\* formula is installed with these options, --HEAD selecting the head version
HEAD_OPT == <<"--", "HEAD">>
Installed(m, p, o) ==
    LET n == BaseName(p)
        rec == [used_options |-> SelectSeq(Split(o), LAMBDA t : t # HEAD_OPT),
                head |-> In(HEAD_OPT, Split(o)),
                on_request |-> "True",
                deps |-> IF n \in DOMAIN m.info THEN m.info[n].deps ELSE <<>>]
    IN [m EXCEPT !.info = Put(m.info, n, rec)]

\* the brew loop (lines 2004-2037).  out is the exit status and whether the
\* output holds an "ln -s" line, which is run when opt["link"] is set.
InstallBrew ==
    /\ pc.at = "install"
    /\ pc.ph = "brew"
    /\ pc.i <= Len(PhaseList("brew"))
    /\ LET p == PhaseList("brew")[pc.i]
           verb == BrewVerb(p)
           o == getd("brew_input_opt")[p]
       IN
       IF verb = "skip"
       THEN /\ pc' = Step
            /\ UNCHANGED <<sys, log, docs>>
       ELSE \E out \in {<<0, FALSE>>, <<0, TRUE>>, <<1, FALSE>>} :
               LET ret == out[1]
                   m == IF ret = 0 THEN Installed(sys, p, o) ELSE sys
                   fix == ret = 0 /\ In(p, get("brew_list"))
                          /\ getd("brew_input_opt")[p] # getd("brew_list_opt")[p]
               IN
               /\ log' = log \o <<Entry(verb, p \o o, ret)>>
                             \o (IF ret = 0 /\ out[2] /\ opt.link
                                 THEN <<Entry("ln", p, 0)>> ELSE <<>>)
               /\ sys' = m
               /\ docs' = IF fix
                          THEN [docs EXCEPT ![1].brew_input_opt =
                                                Put(docs[1].brew_input_opt, p, get_option(m, p))]
                          ELSE docs
               /\ pc' = AfterProc(ret, InstallExitOnErr,
                                  [Step EXCEPT !.reinit = pc.reinit \/ fix])
    /\ UNCHANGED <<files, opt, ext, main, stack, run, cfg, base>>

\* the identifier and the name of a store-app entry as install() takes them
\* apart (lines 2044-2049 and 2052-2057)
AppId(p) == IF IsLongDigit(Split(p)[1]) THEN Split(p)[1] ELSE <<>>
AppPackage(p) == IF IsLongDigit(Split(p)[1]) THEN Join(Tail(Split(p)), S(SP)) ELSE p

\* islist of install(): the declared entry is in the list as it is, or an
\* installed entry has the same name
AppIsListed(p, list) ==
    In(p, list) \/ \E i \in 1..Len(list) : AppPackage(p) = AppPackage(list[i])

\* a version suffix of a store app as mas list prints it and as cleanup tests
\* for it: re.match(r".*\(\d+\.\d+.*\)$", package) (lines 1846 and 1857)
VERSIONS == {"(2.1)"}
HasVersion(name) == name # <<>> /\ Last(name) \in VERSIONS

\* The App Store: the name and the version of the app an identifier stands for
STORE == [x \in DIGITS9 |-> IF x = "123456789"
                            THEN [id |-> x, name |-> S("Foo"), ver |-> "(2.1)"]
                            ELSE [id |-> x, name |-> S("Bar"), ver |-> "(2.1)"]]

\* mas purchase <id>, or the installation from the App Store page, took effect
Purchased(m, id) ==
    IF \E i \in 1..Len(m.apps) : m.apps[i].id = id[1] THEN m
    ELSE [m EXCEPT !.apps = Append(m.apps, STORE[id[1]])]

\* the App Store loop (lines 2040-2077)
InstallMas ==
    /\ pc.at = "install"
    /\ pc.ph = "mas"
    /\ pc.i <= Len(PhaseList("mas"))
    /\ LET p == PhaseList("mas")[pc.i]
           list == get("appstore_list")
       IN
       IF In(p, list)
       THEN /\ pc' = Step
            /\ UNCHANGED <<sys, log, opt>>
       ELSE IF Split(p) = <<>>
       THEN /\ pc' = Crash("IndexError")
            /\ UNCHANGED <<sys, log, opt>>
       ELSE IF AppIsListed(p, list)
       THEN /\ pc' = Step
            /\ UNCHANGED <<sys, log, opt>>
       ELSE IF AppId(p) = <<>>
       THEN /\ log' = Append(log, Entry("manual", p, 0))
            /\ pc' = Step
            /\ UNCHANGED <<sys, opt>>
       ELSE \E ret \in {0, 1} :
               /\ log' = Append(log, Entry(IF check_mas_cmd(sys, opt) = 1
                                           THEN "purchase" ELSE "open", AppId(p), ret))
               /\ opt' = [opt EXCEPT !.is_mas_cmd = check_mas_cmd(sys, opt)]
               /\ sys' = IF ret = 0 THEN Purchased(sys, AppId(p)) ELSE sys
               /\ pc' = AfterProc(ret, InstallExitOnErr, Step)
    /\ UNCHANGED <<files, docs, ext, main, stack, run, cfg, base>>

\* the end of install (lines 2087-2095)
InstallFinish ==
    /\ pc.at = "install"
    /\ pc.ph = "finish"
    /\ IF opt.mas_cmd_installed \/ opt.reattach_cmd_installed \/ pc.reinit
       THEN /\ opt' = [opt EXCEPT !.mas_cmd_installed = opt.reattach_cmd_installed]
            /\ docs' = input_to_list(docs, main, ext, FALSE)
            /\ pc' = At("write", pc.then)
       ELSE /\ pc' = Next1
            /\ UNCHANGED <<opt, docs>>
    /\ UNCHANGED <<files, sys, ext, main, stack, log, run, cfg, base>>

\* the commands issued by the process run n
Commands(n) == SelectSeq(log, LAMBDA e : e.run = n /\ e.kind # "manual")

\* The tool is started again on the same machine and the same files, after a
\* run that ended with status 0: main() builds a new BrewFile with the options
\* of the first start.
MaxRuns == 2

Rerun ==
    /\ pc.at = "exit"
    /\ pc.ph = "0"
    /\ run < MaxRuns
    /\ run' = run + 1
    /\ opt' = cfg
    /\ docs' = <<NewBrewInfo(cfg.input)>>
    /\ ext' = <<>>
    /\ main' = 1
    /\ stack' = <<>>
    /\ pc' = At("start", <<>>)
    /\ UNCHANGED <<files, sys, log, cfg, base>>

-----------------------------------------------------------------------------
(* cleanup and clean_non_request (lines 1786-1971)                         *)

\* a dry run that prints nothing and runs every command
DryRunIgnored(o) == FALSE

\* self.opt["dryrun"]: print the command instead of running it
DryRun(o) == o.dryrun

\* print(cmd): the line a dry run prints for the command kind with argument id
Printed(kind, id) == Entry("print", <<kind>> \o id, 0)

\* the removal loops with the untap loop ahead of the package loop
CleanupPhasesTapFirst == <<"mas", "cask", "tap", "brew">>

\* the removal loops of cleanup in the order of the code
CleanupPhases == <<"mas", "cask", "brew", "tap">>

\* the list a loop of cleanup runs over: self.get(...) when the loop starts
CleanupList(D, ph) ==
    CASE ph = "mas" -> IF opt.appstore = 1 THEN GetL(D, main, ext, "appstore_list", FALSE)
                       ELSE <<>>
      [] ph = "cask" -> IF sys.is_mac THEN GetL(D, main, ext, "cask_list", FALSE) ELSE <<>>
      [] ph = "brew" -> GetL(D, main, ext, "brew_list", FALSE)
      [] ph = "tap" -> GetL(D, main, ext, "tap_list", FALSE)

\* the installed dependencies in todo are appended to the root document's
\* brew_input, theirs are not
RECURSIVE add_direct(_, _, _)
add_direct(D, info, todo) ==
    IF todo = <<>> THEN D
    ELSE LET p == BaseName(Head(todo)) IN
         IF p \notin DOMAIN info \/ In(p, GetL(D, main, ext, "brew_input", FALSE))
         THEN add_direct(D, info, Tail(todo))
         ELSE add_direct(
                  [D EXCEPT ![1].brew_input = Append(D[1].brew_input, p),
                            ![1].brew_input_opt = Put(D[1].brew_input_opt, p, <<>>)],
                  info, Tail(todo))

\* add_dependncies (lines 1821-1833): the installed dependencies in todo, and
\* theirs, are appended to the root document's brew_input
RECURSIVE add_dependncies(_, _, _)
add_dependncies(D, info, todo) ==
    IF todo = <<>> THEN D
    ELSE LET p == BaseName(Head(todo)) IN
         IF p \notin DOMAIN info \/ In(p, GetL(D, main, ext, "brew_input", FALSE))
         THEN add_dependncies(D, info, Tail(todo))
         ELSE add_dependncies(
                  [D EXCEPT ![1].brew_input = Append(D[1].brew_input, p),
                            ![1].brew_input_opt = Put(D[1].brew_input_opt, p, <<>>)],
                  info, info[p].deps \o Tail(todo))

\* cleanup after get_list and read_all: info = get_info(), then the
\* dependencies of the declared installed packages (lines 1819-1833)
CleanupInfo ==
    /\ pc.at = "cleanup"
    /\ pc.ph = ""
    /\ \E q \in {"none", "info"} :
          IF q # "none" /\ QueryExitOnErr
          THEN /\ log' = Append(log, Entry("query", S(q), 1))
               /\ pc' = Exit("1")
               /\ UNCHANGED <<docs, stack>>
          ELSE LET info == QueryResult(sys, q).info
                   declared == SelectSeq(get("brew_input"), LAMBDA p : p \in DOMAIN info)
                   D == add_dependncies(docs, info,
                            Concat([i \in 1..Len(declared) |-> info[declared[i]].deps]))
               IN /\ log' = IF q = "none" THEN log ELSE Append(log, Entry("query", S(q), 1))
                  /\ docs' = D
                  /\ stack' = << [list |-> CleanupList(D, CleanupPhases[1])] >>
                  /\ pc' = [pc EXCEPT !.ph = CleanupPhases[1], !.i = 1]
    /\ UNCHANGED <<files, sys, opt, ext, main, run, cfg, base>>

\* a loop of cleanup is over.  After the cask loop the cask repository is
\* taken out of tap_list when a cask is left in cask_list (lines 1911-1912).
CleanupNextPhase ==
    /\ pc.at = "cleanup"
    /\ pc.ph \in Range(CleanupPhases)
    /\ pc.i > Len(stack[1].list)
    /\ LET k == CHOOSE j \in 1..Len(CleanupPhases) : CleanupPhases[j] = pc.ph
           D == IF pc.ph = "cask" /\ sys.is_mac /\ get("cask_list") # <<>>
                THEN remove_pack(docs, main, ext, "tap_list", CASK_REPO)
                ELSE docs
       IN /\ docs' = D
          /\ IF k = Len(CleanupPhases)
             THEN /\ pc' = [pc EXCEPT !.ph = "cache", !.i = 1]
                  /\ stack' = <<>>
             ELSE /\ pc' = [pc EXCEPT !.ph = CleanupPhases[k + 1], !.i = 1]
                  /\ stack' = << [list |-> CleanupList(D, CleanupPhases[k + 1])] >>
    /\ UNCHANGED <<files, sys, opt, ext, main, log, run, cfg, base>>

\* ' '.join(package.split(' ')[:-1]) when the name ends with a version
StripVersion(package) ==
    IF HasVersion(package)
    THEN LET t == SplitCh(package, SP) IN Join(SubSeq(t, 1, Len(t) - 1), S(SP))
    ELSE package

\* isinput of the App Store loop (lines 1848-1863): a declared entry has the
\* identifier of p, or its name
AppIsInput(p, input) ==
    \E i \in 1..Len(input) :
        \/ AppId(p) # <<>> /\ AppId(p) = AppId(input[i])
        \/ StripVersion(AppPackage(p)) = StripVersion(AppPackage(input[i]))

\* mas uninstall <id>, sudo uninstall or sudo rm -rf of the app took effect
AppRemoved(m, p) ==
    [m EXCEPT !.apps = SelectSeq(m.apps, LAMBDA a : S(a.id) # AppId(p)
                                                    /\ a.name # StripVersion(AppPackage(p)))]

\* the App Store loop (lines 1836-1895).  With mas the command is
\* "sudo mas uninstall <id>"; without, "type uninstall" is run (t is its exit
\* status) and the app is looked for in the application directories (found).
CleanupMas ==
    /\ pc.at = "cleanup"
    /\ pc.ph = "mas"
    /\ pc.i <= Len(stack[1].list)
    /\ LET p == stack[1].list[pc.i]
           gone == remove_pack(docs, main, ext, "appstore_list", p)
       IN
       IF AppIsInput(p, get("appstore_input"))
       THEN /\ pc' = Step
            /\ UNCHANGED <<sys, log, docs>>
       ELSE \E t \in {0, 1}, found \in BOOLEAN, ret \in {0, 1} :
               LET mas == AppId(p) # <<>> /\ check_mas_cmd(sys, opt) = 1
                   probe == IF mas THEN <<>> ELSE <<Entry("type", S("uninstall"), t)>>
               IN
               /\ mas => t = 0 /\ found
               /\ (~found \/ DryRun(opt)) => ret = 0
               /\ docs' = gone
               /\ pc' = Step
               /\ IF ~found
                  THEN /\ log' = log \o probe
                       /\ UNCHANGED sys
                  ELSE IF DryRun(opt)
                  THEN /\ log' = log \o probe \o <<Printed("uninstall_app", p)>>
                       /\ UNCHANGED sys
                  ELSE /\ log' = log \o probe \o <<Entry("uninstall_app", p, ret)>>
                       /\ sys' = IF ret = 0 THEN AppRemoved(sys, p) ELSE sys
    /\ UNCHANGED <<files, opt, ext, main, stack, run, cfg, base>>

\* the cask loop (lines 1898-1908)
CleanupCask ==
    /\ pc.at = "cleanup"
    /\ pc.ph = "cask"
    /\ pc.i <= Len(stack[1].list)
    /\ LET p == stack[1].list[pc.i]
           gone == remove_pack(docs, main, ext, "cask_list", p)
       IN
       IF In(p, get("cask_input"))
       THEN /\ pc' = Step
            /\ UNCHANGED <<sys, log, docs>>
       ELSE IF DryRun(opt)
       THEN /\ log' = Append(log, Printed("uninstall_cask", p))
            /\ docs' = gone
            /\ pc' = Step
            /\ UNCHANGED sys
       ELSE \E ret \in {0, 1} :
               /\ log' = Append(log, Entry("uninstall_cask", p, ret))
               /\ sys' = IF ret = 0 THEN [sys EXCEPT !.casks = RemoveFirst(sys.casks, p)]
                         ELSE sys
               /\ docs' = IF ret = 0 THEN gone ELSE docs
               /\ pc' = AfterProc(ret, TRUE, Step)
    /\ UNCHANGED <<files, opt, ext, main, stack, run, cfg, base>>

\* the package loop (lines 1915-1926)
CleanupBrew ==
    /\ pc.at = "cleanup"
    /\ pc.ph = "brew"
    /\ pc.i <= Len(stack[1].list)
    /\ LET p == stack[1].list[pc.i] IN
       IF In(p, get("brew_input"))
       THEN /\ pc' = Step
            /\ UNCHANGED <<sys, log>>
       ELSE IF DryRun(opt)
       THEN /\ log' = Append(log, Printed("uninstall", p))
            /\ pc' = Step
            /\ UNCHANGED sys
       ELSE \E ret \in {0, 1} :
               /\ log' = Append(log, Entry("uninstall", p, ret))
               /\ sys' = IF ret = 0 THEN [sys EXCEPT !.info = Del(sys.info, p)] ELSE sys
               /\ pc' = AfterProc(ret, TRUE, Step)
    /\ UNCHANGED <<files, opt, docs, ext, main, stack, run, cfg, base>>

\* untapflag of the tap loop (lines 1933-1949): no formula of the tap is in
\* brew_input and, on a Mac, no cask of the tap is in cask_input
UntapFlag(m, p) ==
    /\ \A tp \in Range(get_tap_packs(m, p)) : ~In(tp, get("brew_input"))
    /\ m.is_mac => \A tc \in Range(get_tap_casks(m, p)) : ~In(tc, get("cask_input"))

\* the tap loop (lines 1929-1954)
CleanupTap ==
    /\ pc.at = "cleanup"
    /\ pc.ph = "tap"
    /\ pc.i <= Len(stack[1].list)
    /\ LET p == stack[1].list[pc.i] IN
       IF In(p, get("tap_input")) \/ ~UntapFlag(sys, p)
       THEN /\ pc' = Step
            /\ UNCHANGED <<sys, log>>
       ELSE IF DryRun(opt)
       THEN /\ log' = Append(log, Printed("untap", p))
            /\ pc' = Step
            /\ UNCHANGED sys
       ELSE \E ret \in {0, 1} :
               /\ log' = Append(log, Entry("untap", p, ret))
               /\ sys' = IF ret = 0 THEN [sys EXCEPT !.taps = RemoveFirst(sys.taps, p)]
                         ELSE sys
               /\ pc' = AfterProc(ret, TRUE, Step)
    /\ UNCHANGED <<files, opt, docs, ext, main, stack, run, cfg, base>>

\* brew cleanup and rm -rf <cache> (lines 1957-1965), then the end of cleanup
CleanupCache ==
    /\ pc.at = "cleanup"
    /\ pc.ph = "cache"
    /\ IF DryRun(opt)
       THEN /\ log' = log \o <<Printed("cleanup", <<>>), Printed("rm", S("cache"))>>
            /\ pc' = Next1
       ELSE \E r0 \in {0, 1}, r1 \in {0, 1} :
               /\ r0 # 0 => r1 = 0
               /\ log' = log \o <<Entry("cleanup", <<>>, r0)>>
                             \o (IF r0 = 0 THEN <<Entry("rm", S("cache"), r1)>> ELSE <<>>)
               /\ pc' = AfterProc(r0 + r1, TRUE, Next1)
    /\ UNCHANGED <<files, sys, opt, docs, ext, main, stack, run, cfg, base>>

\* clean_non_request up to its loop: info = get_info(), leaves = get_leaves()
CleanNonRequest ==
    /\ pc.at = "clean_non_request"
    /\ pc.ph = ""
    /\ \E q \in {"none", "info", "leaves"} :
          IF q # "none" /\ QueryExitOnErr
          THEN /\ log' = Append(log, Entry("query", S(q), 1))
               /\ pc' = Exit("1")
               /\ UNCHANGED stack
          ELSE LET m == QueryResult(sys, q) IN
               /\ log' = IF q = "none" THEN log ELSE Append(log, Entry("query", S(q), 1))
               /\ stack' = << [list |-> FullList(m), leaves |-> get_leaves(m),
                               info |-> m.info] >>
               /\ pc' = [pc EXCEPT !.ph = "loop", !.i = 1]
    /\ UNCHANGED <<files, sys, opt, docs, ext, main, run, cfg, base>>

\* the loop of clean_non_request (lines 1793-1802): a leaf whose
\* installed_on_request is False is uninstalled
CleanNonRequestLoop ==
    /\ pc.at = "clean_non_request"
    /\ pc.ph = "loop"
    /\ IF pc.i > Len(stack[1].list)
       THEN /\ pc' = Next1
            /\ stack' = <<>>
            /\ UNCHANGED <<sys, log>>
       ELSE LET p == stack[1].list[pc.i] IN
            /\ UNCHANGED stack
            /\ IF ~In(p, stack[1].leaves) \/ stack[1].info[p].on_request # "False"
               THEN /\ pc' = Step
                    /\ UNCHANGED <<sys, log>>
               ELSE IF DryRun(opt)
               THEN /\ log' = Append(log, Printed("uninstall", p))
                    /\ pc' = Step
                    /\ UNCHANGED sys
               ELSE \E ret \in {0, 1} :
                       /\ log' = Append(log, Entry("uninstall", p, ret))
                       /\ sys' = IF ret = 0 THEN [sys EXCEPT !.info = Del(sys.info, p)]
                                 ELSE sys
                       /\ pc' = AfterProc(ret, TRUE, Step)
    /\ UNCHANGED <<files, opt, docs, ext, main, run, cfg, base>>

-----------------------------------------------------------------------------
(* update (execute, lines 2669-2683)                                       *)

\* the steps of update after the upgrade: install, cleanup unless this is a
\* dry run, initialize(check=False), push
UpdateSteps == <<"read_all", "install", "update_clean", "initialize", "update_push">>

\* brew update, brew upgrade --fetch-HEAD, brew upgrade --cask, then git pull
\* when a repository is set; fail is the command that exits non-zero, 0 for none
UpdateBegin ==
    /\ pc.at = "update"
    /\ \E fail \in 0..4 :
          LET cmds == <<S("update"), S("upgrade"), S("upgrade-cask")>>
              n == IF fail = 0 THEN 3 ELSE IF fail < 4 THEN fail ELSE 3
              pull == opt.repo # <<>> /\ (fail = 0 \/ fail = 4)
          IN /\ fail = 4 => opt.repo # <<>>
             /\ log' = log \o [i \in 1..n |-> Entry("brew", cmds[i], IF i = fail THEN 1 ELSE 0)]
                           \o (IF pull THEN <<Entry("pull", opt.repo, IF fail = 4 THEN 1 ELSE 0)>>
                               ELSE <<>>)
             /\ pc' = AfterProc(fail, TRUE, At("get_list_force", UpdateSteps))
    /\ UNCHANGED <<files, sys, opt, docs, ext, main, stack, run, cfg, base>>

\* "if not self.opt['dryrun']: self.cleanup()"
UpdateClean ==
    /\ pc.at = "update_clean"
    /\ pc' = IF opt.dryrun THEN Next1
             ELSE At("get_list", <<"read_all", "cleanup">> \o pc.then)
    /\ UNCHANGED <<files, sys, opt, docs, ext, main, stack, log, run, cfg, base>>

\* "if self.opt['repo'] != '': self.repomgr('push')"
UpdatePush ==
    /\ pc.at = "update_push"
    /\ IF opt.repo = <<>>
       THEN /\ pc' = Next1
            /\ UNCHANGED log
       ELSE \E ret \in {0, 1} :
               /\ log' = Append(log, Entry("push", opt.repo, ret))
               /\ pc' = AfterProc(ret, TRUE, Next1)
    /\ UNCHANGED <<files, sys, opt, docs, ext, main, stack, run, cfg, base>>

-----------------------------------------------------------------------------
(* The files, machines and options the specifications start from           *)

ROOT == <<"d", "/", "R">>
S1P == <<"d", "/", "S1">>
S2P == <<"d", "/", "S2">>
PATHS == {ROOT, S1P, S2P}

T_R == <<"t", "/", "r">>
WITH_LUA == <<"--", "with-lua">>
WITH_PYTHON == <<"--", "with-python">>

\* a line of a manifest: its tokens separated by one blank
Ln(toks) == Join(toks, S(SP))

Opt0(command, form, filter, appstore) ==
    [command |-> command, input |-> ROOT, form |-> form,
     leaves |-> filter = "leaves", on_request |-> filter = "on_request",
     top_packages |-> IF filter = "top" THEN <<S("b")>> ELSE <<>>,
     caskonly |-> filter = "caskonly", appstore |-> appstore, link |-> TRUE,
     dryrun |-> TRUE, repo |-> <<>>, read |-> FALSE, initialized |-> FALSE, is_mas_cmd |-> 0,
     mas_cmd_installed |-> FALSE, reattach_cmd_installed |-> FALSE]

Pk(used, head, req, deps) ==
    [used_options |-> used, head |-> head, on_request |-> req, deps |-> deps]

\* the installed packages: none; a (which depends on b) and b; a, b and c
NoInfo == [x \in {} |-> Pk(<<>>, FALSE, "True", <<>>)]
InfoAB(used) == [x \in {S("a"), S("b")} |->
                    IF x = S("a") THEN Pk(used, FALSE, "True", <<S("b")>>)
                    ELSE Pk(<<>>, FALSE, "False", <<>>)]
InfoABC(used) == [x \in {S("a"), S("b"), S("c")} |->
                     IF x = S("a") THEN Pk(used, FALSE, "True", <<S("b")>>)
                     ELSE IF x = S("b") THEN Pk(<<>>, FALSE, "False", <<>>)
                     ELSE Pk(<<>>, TRUE, "None", <<>>)]

\* the directory of the tap t/r holds the formula c and the cask u
TapDirs == [x \in {T_R} |-> [packs |-> <<S("c")>>, casks |-> <<S("u")>>]]

Machine(info, taps, casks, apps, mas) ==
    [is_mac |-> TRUE, info |-> info, taps |-> taps, casks |-> casks, apps |-> apps,
     tapdir |-> TapDirs, mas |-> mas]

Files(r, s1, s2) == [x \in PATHS |-> IF x = ROOT THEN r ELSE IF x = S1P THEN s1 ELSE s2]

\* the state of a process that main() has just started
Started(fs, m, o) ==
    /\ files = fs
    /\ sys = m
    /\ opt = o
    /\ cfg = o
    /\ docs = <<NewBrewInfo(o.input)>>
    /\ ext = <<>>
    /\ main = 1
    /\ stack = <<>>
    /\ pc = At("start", <<>>)
    /\ log = <<>>
    /\ run = 1
    /\ base = [sys |-> m, files |-> fs]

-----------------------------------------------------------------------------
(* SpecGraph: get_files on manifest graphs with cycles and repeated paths  *)

F_S1 == Ln(<<K_file, S("S1")>>)
F_S2 == Ln(<<K_file, S("S2")>>)
F_R == Ln(<<K_file, S("R")>>)
M_S1 == Ln(<<K_main, S("S1")>>)
M_S2 == Ln(<<K_main, S("S2")>>)
B_a == Ln(<<K_brew, S("a")>>)
B_b == Ln(<<K_brew, S("b")>>)
B_c == Ln(<<K_brew, S("c")>>)

GraphRoots == { <<B_a>>, <<F_S1>>, <<F_S1, F_S1>>, <<F_S1, F_S2>>, <<M_S1, F_S2>>, <<F_R>>,
                <<F_S1, B_a, F_S2>>, <<M_S1, M_S2>> }
GraphSats == { NoFile, <<B_b>>, <<F_S2>>, <<F_S1>>, <<F_R>>, <<M_S2>>, <<F_S2, F_S1>> }

InitGraph ==
    \E r \in GraphRoots, s1 \in GraphSats, s2 \in GraphSats :
        Started(Files(r, s1, s2),
                Machine(InfoAB(<<>>), <<>>, <<>>, <<>>, "ok"),
                Opt0("get_files", "none", "none", 1))

NextGraph ==
    \/ Start
    \/ ReadAll
    \/ ReadInclude
    \/ ReadReturn
    \/ ReadAllEnd

SpecGraph == InitGraph /\ [][NextGraph]_vars

-----------------------------------------------------------------------------
(* SpecInit: the init command on a machine and a manifest graph            *)

TAP_tr == Ln(<<K_tap, T_R>>)
CASK_u == Ln(<<K_cask, S("u")>>)
APP_Foo == Ln(<<K_appstore, S("123456789"), S("Foo")>>)
APP_FooV == Ln(<<K_appstore, S("123456789"), S("Foo"), S("(2.1)")>>)

InitRoots == { NoFile, <<B_a>>, <<F_S1, B_a, B_b>>, <<M_S1, B_a, TAP_tr>>,
               <<F_S1, F_S2, TAP_tr, B_c, CASK_u, APP_FooV>> }
InitS1 == { NoFile, <<B_a>>, <<B_b, TAP_tr>>, <<TAP_tr, B_c, CASK_u>>, <<APP_FooV, B_a, B_b>> }
InitS2 == { NoFile, <<B_a, TAP_tr>> }

InitMachines ==
    { Machine(InfoAB(<<>>), <<>>, <<>>, <<>>, "ok"),
      Machine(InfoABC(<<WITH_LUA>>), <<T_R>>, <<S("u")>>, <<STORE["123456789"]>>, "ok"),
      Machine(InfoABC(<<>>), <<CORE_TAP, T_R>>, <<S("u")>>, <<STORE["123456789"]>>, "old") }

Filters == {"none", "leaves", "on_request", "top", "caskonly"}

InitInit ==
    \E r \in InitRoots, s1 \in InitS1, s2 \in InitS2, m \in InitMachines,
       f \in Filters, a \in {1, 2}, form \in {"none", "bundle"} :
        Started(Files(r, s1, s2), m, Opt0("init", form, f, a))

NextInit ==
    \/ Start
    \/ Initialize
    \/ GetList
    \/ GetListTail
    \/ InitRead
    \/ ReadAll
    \/ ReadInclude
    \/ ReadReturn
    \/ ReadAllEnd
    \/ CleanList
    \/ WriteDoc
    \/ WriteEnd

SpecInit == InitInit /\ [][NextInit]_vars

-----------------------------------------------------------------------------
(* The manifest graph: termination and one document for each path          *)

\* the documents of the graph: main, then brewinfo_ext (get_files)
Members == <<main>> \o ext

\* C7: graph resolution terminates for every finite set of files, also when a
\* file includes itself or two files include each other: no path is entered by
\* read while a call of read for the same path is under way, and read never
\* ends in RecursionError.
C7_NoReentry ==
    /\ \A i, j \in 1..Len(stack) :
          i < j => docs[stack[i].b].filename # docs[stack[j].b].filename
    /\ ~(pc.at = "crash" /\ pc.ph = "RecursionError")

\* C8: after read_all each path is held by at most one member document.
C8_OneDocumentForAPath ==
    opt.read =>
        \A i, j \in 1..Len(Members) :
            i < j => docs[Members[i]].filename # docs[Members[j]].filename

-----------------------------------------------------------------------------
(* initialize: what clean_list leaves in main and in the other documents   *)

\* initialize has run get_list, read_all and clean_list, and has not yet
\* written a document
AfterClean == opt.command = "init" /\ pc.at = "write" /\ pc.i = 1

\* the packages and the repositories a file declares
Declared(path) == BrewInfo_read(base.sys, base.files, NewBrewInfo(path), "none").b

\* the packages the probe of the installed state lists (get_list)
Discovered == ProbeLists(base.sys, cfg, NewBrewInfo(ROOT), FALSE)

\* the documents of the graph other than main and the root
Satellites == {k \in Range(ext) : k # main /\ docs[k].filename # ROOT}

C10_RepositoryNotInMain ==
    AfterClean =>
        \A k \in Satellites :
            \A t \in Range(docs[k].tap_input) \ {DIRECT} : ~In(t, docs[main].tap_list)

\* C10, amended: the dedup pass covers packages, gui packages and store apps:
\* none that a satellite declares is in main's current list.  Repositories are
\* left out of it: main's current repository list holds every tapped
\* repository, also one that a satellite declares.
C10_DedupButRepositories ==
    AfterClean =>
        /\ \A k \in Satellites :
              /\ \A x \in Range(docs[k].brew_input) : ~In(x, docs[main].brew_list)
              /\ \A x \in Range(docs[k].cask_input) : ~In(x, docs[main].cask_list)
              /\ \A x \in Range(docs[k].appstore_input) : ~In(x, docs[main].appstore_list)
        /\ \A t \in Range(base.sys.taps) : In(t, docs[main].tap_list)

C10_Witness ==
    /\ AfterClean
    /\ \E k \in Satellites :
          \E t \in Range(docs[k].tap_input) \ {DIRECT} :
              In(t, base.sys.taps) /\ In(t, docs[main].tap_list)

-----------------------------------------------------------------------------
(* SpecInstall: one run of the install command                             *)

BEFORE_hi == Ln(<<K_before, S("echo"), S("hi")>>)
AFTER_hi == Ln(<<K_after, S("echo"), S("hi")>>)
RAW_hi == Ln(<<S("echo"), S("hi")>>)
B_a_lua == Ln(<<K_brew, S("a"), WITH_LUA>>)
B_a_py == Ln(<<K_brew, S("a"), WITH_PYTHON>>)
B_a_py_lua == Ln(<<K_brew, S("a"), WITH_PYTHON, WITH_LUA>>)
B_b_lua == Ln(<<K_brew, S("b"), WITH_LUA>>)
B_c_head == Ln(<<K_brew, S("c"), HEAD_OPT>>)
APP_Bar == Ln(<<K_appstore, S("Bar")>>)

InstallRoots ==
    { <<B_a_lua>>, <<B_a_lua, B_b_lua, B_c>>, <<B_a_py_lua, B_c_head>>,
      <<TAP_tr, CASK_u, B_c>>, <<APP_Foo>>, <<APP_Bar, APP_FooV>>,
      <<BEFORE_hi, B_b, RAW_hi, AFTER_hi>>, <<F_S1, B_b_lua>> }

InstallS1 == { NoFile, <<B_a_py, CASK_u>> }

InstallMachines ==
    { Machine(NoInfo, <<>>, <<>>, <<>>, "ok"),
      Machine(InfoAB(<<WITH_PYTHON>>), <<T_R>>, <<S("u")>>, <<STORE["123456789"]>>, "ok"),
      Machine(InfoABC(<<WITH_LUA, WITH_PYTHON>>), <<T_R>>, <<>>, <<STORE["123456789"]>>, "old"),
      Machine(InfoAB(<<WITH_LUA>>), <<>>, <<>>, <<>>, "old") }

InitInstall ==
    \E r \in InstallRoots, s1 \in InstallS1, m \in InstallMachines,
       f \in Filters, a \in {0, 1} :
        Started(Files(r, s1, NoFile), m, Opt0("install", "none", f, a))

NextInstall ==
    \/ Start
    \/ GetList
    \/ ReadAll
    \/ ReadInclude
    \/ ReadReturn
    \/ ReadAllEnd
    \/ InstallBegin
    \/ InstallNextPhase
    \/ InstallRun
    \/ InstallTap
    \/ InstallCask
    \/ InstallBrew
    \/ InstallMas
    \/ InstallFinish
    \/ WriteDoc
    \/ WriteEnd

SpecInstall == InitInstall /\ [][NextInstall]_vars

-----------------------------------------------------------------------------
(* install: failures, the converge rule for packages, store apps           *)

PackageCommands == {"install", "reinstall"}

\* C1: when the command for one declared package (brew install, brew
\* reinstall) exits non-zero, install goes on with what remains to be done: the
\* process does not terminate because of that failure.
C1_FailedPackageDoesNotExit ==
    ~(/\ pc.at = "exit"
      /\ pc.ph # "0"
      /\ log # <<>>
      /\ Last(log).kind \in PackageCommands
      /\ Last(log).ret # 0)

\* the brew loop is about to handle the declared package at pc.i
AtPackage == pc.at = "install" /\ pc.ph = "brew" /\ pc.i <= Len(PhaseList("brew"))

\* the package commands the step adds to the log, without their exit status
NewPackageCommands ==
    LET new == SelectSeq(SubSeq(log', Len(log) + 1, Len(log')),
                         LAMBDA e : e.kind \in PackageCommands)
    IN [i \in 1..Len(new) |-> <<new[i].kind, new[i].id>>]

\* p is installed when the run starts, with the options o as a set of tokens
IsInstalled(p) == p \in DOMAIN base.sys.info
InstalledWith(p, o) == Range(Split(get_option(base.sys, p))) = Range(Split(o))

\* the package is one the discovery filter lists
IsListed(p) == In(p, FilterList(base.sys, cfg))

\* C5 as stated, for every configuration of the discovery filters: install
\* issues for a declared package p with the declared options o no action if p
\* is installed with the options o (as a set of tokens), reinstall p o if p is
\* installed with other options, install p o if p is not installed.
C5_ConvergeRule ==
    [][AtPackage =>
         LET p == PhaseList("brew")[pc.i]
             o == getd("brew_input_opt")[p]
         IN NewPackageCommands =
                IF ~IsInstalled(p) THEN << <<"install", p \o o>> >>
                ELSE IF InstalledWith(p, o) THEN <<>>
                ELSE << <<"reinstall", p \o o>> >>]_vars

\* C5, amended: the rule holds for the packages the discovery filter lists
\* (all installed packages, or the leaves, or the packages installed on
\* request, and the installed top packages).  For an installed package that the
\* filter does not list install issues no action, whatever its options.
C5_ConvergeRuleOfListed ==
    [][AtPackage =>
         LET p == PhaseList("brew")[pc.i]
             o == getd("brew_input_opt")[p]
         IN NewPackageCommands =
                IF ~IsInstalled(p) THEN << <<"install", p \o o>> >>
                ELSE IF InstalledWith(p, o) \/ ~IsListed(p) THEN <<>>
                ELSE << <<"reinstall", p \o o>> >>]_vars

\* declared a --with-lua, installed a --with-python: the run ends with exactly
\* one command, reinstall a --with-lua
C5_Witness ==
    /\ pc.at = "exit"
    /\ pc.ph = "0"
    /\ S("a") \in DOMAIN base.sys.info
    /\ base.sys.info[S("a")].used_options = <<WITH_PYTHON>>
    /\ Len(log) = 1
    /\ log[1].kind = "reinstall"
    /\ log[1].id = S("a") \o S(SP) \o WITH_LUA

\* C6: a declared store app "<id> <name>" matches the installed entry that the
\* probe reports as "<id> <name> (<version>)": no purchase and no installation
\* from the App Store is issued for it.
C6_NoPurchaseOfInstalledApp ==
    \A i \in 1..Len(log) :
        log[i].kind \in {"purchase", "open"} =>
            ~\E k \in 1..Len(base.sys.apps) :
                /\ log[i].id = S(base.sys.apps[k].id)
                /\ In(AppLine(base.sys.apps[k], FALSE), get("appstore_input"))

-----------------------------------------------------------------------------
(* SpecAgain: install, and install again on the machine it has changed     *)

AgainRoots ==
    { <<B_a_lua>>, <<BEFORE_hi, B_b, RAW_hi, AFTER_hi>>, <<TAP_tr, CASK_u, B_c_head>>, <<APP_Foo>>, <<APP_FooV, B_b>>,
      <<F_S1, B_a_py_lua>> }

InitAgain ==
    \E r \in AgainRoots, s1 \in InstallS1, m \in InstallMachines, f \in {"none", "leaves"} :
        Started(Files(r, s1, NoFile), m, Opt0("install", "none", f, 1))

NextAgain ==
    \/ NextInstall
    \/ Rerun

SpecAgain == InitAgain /\ [][NextAgain]_vars

\* the commands of the action plan: taps, installations of gui packages and
\* packages, purchases and installations of store apps
PlanCommands == {"tap", "cask", "install", "reinstall", "purchase", "open"}

\* C2: when install has completed and every command it issued took effect,
\* install run again on the resulting state issues no command: the second
\* action plan is empty.
C2_SecondPlanEmpty ==
    \A i \in 1..Len(log) : log[i].run = 2 => log[i].kind \notin PlanCommands

-----------------------------------------------------------------------------
(* SpecText: read, input_to_list, write in a dialect, read                 *)

\* the lines a text is made of, in the plain, the bundle and the command form
TextLines ==
    << B_a_lua, TAP_tr, B_c, CASK_u, APP_Foo, F_S1, BEFORE_hi, RAW_hi, AFTER_hi >>

Q(x) == S(SQ) \o x \o S(SQ)
BundleText ==
    << <<"tap", SP>> \o Q(T_R),
       <<"brew", SP>> \o Q(S("a")) \o <<",", SP, "args:", SP, "[">> \o Q(S("with-lua")) \o S("]"),
       <<"cask", SP>> \o Q(S("u")),
       <<"mas", SP>> \o Q(S("Foo")) \o <<",", SP, "id:", SP, "123456789">> >>
CommandText ==
    << Ln(<<K_brew, K_tap, T_R>>), Ln(<<K_brew, K_install, S("a"), WITH_LUA>>),
       Ln(<<K_brew, K_cask, K_install, S("u")>>) >>

\* the texts: every choice of lines of TextLines, and the two other texts
Pick(seq, set) == SelectSeq([i \in 1..Len(seq) |-> <<i, seq[i]>>], LAMBDA x : x[1] \in set)
Choice(seq, set) == [i \in 1..Len(Pick(seq, set)) |-> Pick(seq, set)[i][2]]
Texts == {Choice(TextLines, c) : c \in SUBSET (1..Len(TextLines))} \cup {BundleText, CommandText}

Dialects == {"file", "bundle", "cmd"}

InitText ==
    \E text \in Texts, form \in Dialects :
        /\ Started(Files(text, NoFile, NoFile),
                   Machine(InfoABC(<<WITH_LUA>>), <<T_R>>, <<S("u")>>, <<>>, "ok"),
                   Opt0("text", form, "none", 1))

\* the document after read, its declared entries copied to the current lists
TextRead ==
    /\ pc.at = "start"
    /\ opt.command = "text"
    /\ \E r \in {BrewInfo_read(sys, files, docs[1], opt.form)} :
          /\ docs' = [docs EXCEPT ![1] = BrewInfo_input_to_list(r.b)]
          /\ base' = [sys |-> sys, files |-> files, first |-> r.b]
          /\ opt' = [opt EXCEPT !.form = r.form]
          /\ pc' = IF r.err # "" THEN Crash(r.err) ELSE At("text_write", <<>>)
    /\ UNCHANGED <<files, sys, ext, main, stack, log, run, cfg>>

\* write in the dialect opt["form"]
TextWrite ==
    /\ pc.at = "text_write"
    /\ \E w \in {BrewInfo_write(sys, opt, docs[1])} :
          /\ docs' = [docs EXCEPT ![1] = w.b]
          /\ files' = IF w.text = NoFile THEN files ELSE [files EXCEPT ![docs[1].filename] = w.text]
          /\ pc' = IF w.err # "" THEN Crash(w.err) ELSE At("text_reread", <<>>)
    /\ UNCHANGED <<sys, opt, ext, main, stack, log, run, cfg, base>>

\* read of the written text
TextReread ==
    /\ pc.at = "text_reread"
    /\ \E r \in {BrewInfo_read(sys, files, docs[1], opt.form)} :
          /\ docs' = [docs EXCEPT ![1] = r.b]
          /\ opt' = [opt EXCEPT !.form = r.form]
          /\ pc' = IF r.err # "" THEN Crash(r.err) ELSE At("text_done", <<>>)
    /\ UNCHANGED <<files, sys, ext, main, stack, log, run, cfg, base>>

NextText ==
    \/ TextRead
    \/ TextWrite
    \/ TextReread

SpecText == InitText /\ [][NextText]_vars

\* the entries of the identity domains of a document: the packages with their
\* options, the repositories, the gui packages, the store apps
Entries(b) ==
    [package |-> {<<x, Range(Split(b.brew_input_opt[x]))>> : x \in Range(b.brew_input)},
     repository |-> Range(b.tap_input),
     gui_package |-> Range(b.cask_input),
     store_app |-> Range(b.appstore_input)]

\* the entries of every domain
View(b) ==
    [package |-> Entries(b).package,
     repository |-> Entries(b).repository,
     gui_package |-> Entries(b).gui_package,
     store_app |-> Entries(b).store_app,
     included_file |-> Range(b.file_input),
     before_command |-> Range(b.before_input),
     after_command |-> Range(b.after_input),
     raw_command |-> Range(b.cmd_input)]

\* C3: for each of the three dialects, read, input_to_list, write in the
\* dialect and read of the written text give the same entries of each identity
\* domain as the first read.
C3_RoundTrip ==
    pc.at = "text_done" => Entries(docs[1]) = Entries(base.first)

\* write of the document b in the dialect form and read of the written text
WrittenText(b, form) == BrewInfo_write(base.sys, [cfg EXCEPT !.form = form], b).text

Reparsed(b, form) ==
    BrewInfo_read(base.sys,
                  [x \in {b.filename} |->
                      IF WrittenText(b, form) = NoFile THEN base.files[b.filename]
                      ELSE WrittenText(b, form)],
                  NewBrewInfo(b.filename), form).b

\* C4: written in the plain, the bundle and the command dialect and read
\* again, a document gives the same view of every domain in the three cases.
C4_DialectInvariance ==
    pc.at = "text_done" =>
        View(docs[1]) = View(Reparsed(BrewInfo_input_to_list(base.first), "file"))

-----------------------------------------------------------------------------
(* install: repositories and gui packages                                  *)

\* the commands that remove what is installed
RemovalCommands == {"uninstall", "uninstall_cask", "uninstall_app", "untap", "rm", "cleanup"}

\* the run of install has completed
InstallDone == opt.command = "install" /\ pc.at = "exit" /\ pc.ph = "0"

Issued(kind, id) == \E i \in 1..Len(log) : log[i].kind = kind /\ log[i].id = id

\* C14: install issues `brew tap` for every declared repository that is not
\* tapped (direct excepted) and an installation for every declared gui package
\* that is not installed, for these only, and it issues no command that removes
\* what is installed but not declared.
C14_AddsAndNeverRemoves ==
    /\ \A i \in 1..Len(log) :
          /\ log[i].kind \notin RemovalCommands
          /\ log[i].kind = "tap" =>
                In(log[i].id, get("tap_input")) /\ ~In(log[i].id, base.sys.taps)
          /\ log[i].kind = "cask" =>
                In(log[i].id, get("cask_input")) /\ ~In(log[i].id, base.sys.casks)
    /\ InstallDone =>
          /\ \A p \in Range(get("tap_input")) \ {DIRECT} :
                ~In(p, base.sys.taps) => Issued("tap", p)
          /\ \A p \in Range(get("cask_input")) :
                ~In(p, base.sys.casks) => Issued("cask", p)

\* a run that has tapped a repository and installed a gui package on a machine
\* where a package is installed that no file declares
C14_Witness ==
    /\ InstallDone
    /\ \E i, j \in 1..Len(log) : log[i].kind = "tap" /\ log[j].kind = "cask"
    /\ \E p \in DOMAIN base.sys.info : ~In(p, get("brew_input"))

-----------------------------------------------------------------------------
(* read_all: the main document                                             *)

\* the file at the end of the chain of main directives that starts at path: a
\* document's last main directive leads to the next file of the chain
RECURSIVE ChainEnd(_, _)
ChainEnd(path, n) ==
    LET b == Declared(path) IN
    IF n = 0 \/ b.main_input = <<>> THEN path
    ELSE ChainEnd(IncludePath(b, Last(b.main_input)), n - 1)

\* C17: after read_all main is the document at the end of the chain of main
\* directives that starts at the root, and the root when the root has no main
\* directive; a main directive in a document included by a file directive does
\* not change it.  Main is not in the list of the other documents, and the root
\* is main or in that list.
C17_MainIsEndOfChain ==
    opt.read =>
        /\ docs[main].filename = ChainEnd(ROOT, MaxDepth)
        /\ ~In(main, ext)
        /\ main = 1 \/ In(1, ext)

\* the chain root, S1, S2 is followed to its end, S2, which the root includes by
\* a file directive as well
C17_Witness ==
    /\ opt.read
    /\ main # 1
    /\ docs[main].filename = S2P
    /\ Declared(ROOT).main_input = <<S("S1")>>
    /\ Declared(S1P).main_input = <<S("S2")>>
    /\ Len(ext) > 2

-----------------------------------------------------------------------------
(* SpecMerge: get_files on graphs whose files declare a package with        *)
(* different options                                                       *)

MergeRoots == { <<F_S1, B_a_lua>>, <<M_S1, B_a_lua>>, <<B_a_lua, F_S1, F_S2>>,
                <<M_S1, F_S2, B_a_lua>>, <<F_S1, B_b>> }
MergeS1 == { NoFile, <<B_a_py>>, <<B_a_py, F_S2>>, <<B_b_lua, M_S2>> }
MergeS2 == { NoFile, <<B_a_py_lua>>, <<B_a, B_b>> }

InitMerge ==
    \E r \in MergeRoots, s1 \in MergeS1, s2 \in MergeS2 :
        Started(Files(r, s1, s2),
                Machine(InfoAB(<<>>), <<>>, <<>>, <<>>, "ok"),
                Opt0("get_files", "none", "none", 1))

NextMerge ==
    \/ Start
    \/ ReadAll
    \/ ReadInclude
    \/ ReadReturn
    \/ ReadAllEnd

SpecMerge == InitMerge /\ [][NextMerge]_vars

\* the member documents that declare the package p; a document's number is its
\* place in the order of the visits of read
Holders(p) == {k \in Range(Members) : p \in DOMAIN docs[k].brew_input_opt}
Latest(ks) == CHOOSE k \in ks : \A j \in ks : j <= k
MergedPackages == UNION {DOMAIN docs[k].brew_input_opt : k \in Range(Members)}

\* C16 as stated: the merged options of a package that several documents
\* declare are those of the document visited last, whichever of them is main.
C16_LaterVisitedWins ==
    opt.read =>
        \A p \in MergedPackages :
            getd("brew_input_opt")[p] = docs[Latest(Holders(p))].brew_input_opt[p]

\* C16, amended: the options of a document other than main override those of
\* main, whenever main was visited; among the documents other than main the one
\* visited last wins.
C16_MainIsOverridden ==
    opt.read =>
        \A p \in MergedPackages :
            getd("brew_input_opt")[p] =
                docs[IF Holders(p) \ {main} # {} THEN Latest(Holders(p) \ {main})
                     ELSE main].brew_input_opt[p]

\* main is S1, visited after the root, and both declare a with other options:
\* the merged options are the root's
C16_Witness ==
    /\ opt.read
    /\ main # 1
    /\ S("a") \in DOMAIN docs[main].brew_input_opt
    /\ S("a") \in DOMAIN docs[1].brew_input_opt
    /\ docs[main].brew_input_opt[S("a")] # docs[1].brew_input_opt[S("a")]
    /\ getd("brew_input_opt")[S("a")] = docs[1].brew_input_opt[S("a")]

-----------------------------------------------------------------------------
(* SpecRemove: remove_pack on the documents of a graph that initialize has  *)
(* filled                                                                  *)

RemoveRoots == { <<F_S1, F_S2, B_a>>, <<M_S1, F_S2, CASK_u>>, <<F_S1, F_S2>> }
RemoveS1 == { <<B_a, CASK_u>>, <<B_b, TAP_tr>>, <<B_a>> }
RemoveS2 == { NoFile, <<B_a, TAP_tr>>, <<CASK_u, B_b>> }

\* remove_pack(name, package) on the documents that initialize has filled
RemovePack ==
    /\ pc.at = "write"
    /\ pc.i = 1
    /\ \E name \in {"brew_list", "cask_list", "tap_list"},
          p \in {S("a"), S("b"), S("u"), T_R} :
          /\ docs' = remove_pack(docs, main, ext, name, p)
          /\ base' = [sys |-> base.sys, files |-> base.files, docs |-> docs,
                      name |-> name, package |-> p]
    /\ pc' = At("removed", <<>>)
    /\ UNCHANGED <<files, sys, opt, ext, main, stack, log, run, cfg>>

InitRemove ==
    \E r \in RemoveRoots, s1 \in RemoveS1, s2 \in RemoveS2 :
        Started(Files(r, s1, s2),
                Machine(InfoABC(<<>>), <<T_R>>, <<S("u")>>, <<>>, "ok"),
                Opt0("init", "none", "none", 1))

NextRemove ==
    \/ Start
    \/ Initialize
    \/ GetList
    \/ InitRead
    \/ ReadAll
    \/ ReadInclude
    \/ ReadReturn
    \/ ReadAllEnd
    \/ CleanList
    \/ RemovePack

SpecRemove == InitRemove /\ [][NextRemove]_vars

\* the members, in member order, whose current list held the identifier
HoldersBefore ==
    SelectSeq(Members, LAMBDA k : In(base.package, base.docs[k][Dic(base.name)]))

\* C15: remove_pack removes the identifier from exactly one document, the first
\* member in member order whose current list holds it; every other document is
\* left as it was, also when several documents hold the identifier.
C15_RemovesFromFirstHolderOnly ==
    pc.at = "removed" =>
        \A k \in 1..Len(docs) :
            docs[k] = IF HoldersBefore # <<>> /\ k = Head(HoldersBefore)
                      THEN BrewInfo_remove(base.docs[k], base.name, base.package)
                      ELSE base.docs[k]

-----------------------------------------------------------------------------
(* SpecRead: read of texts with lines that hold no directive               *)

\* a line of tabs, a line of quotes, a line of brackets and a comma, a
\* directive without identifier, a store app in the comma form with fewer than
\* four tokens, a raw command, a package
OddLines ==
    << <<TAB>>, <<SQ, SQ>>, <<"[", ",", "]">>, <<"brew">>,
       <<"mas", SP, SQ, "Foo", SQ, ",">>, RAW_hi, B_a >>

OddTexts == {Choice(OddLines, c) : c \in SUBSET (1..Len(OddLines))}

InitOdd ==
    \E text \in OddTexts, form \in {"none", "bundle"} :
        Started(Files(text, NoFile, NoFile),
                Machine(InfoAB(<<>>), <<>>, <<>>, <<>>, "ok"),
                Opt0("text", form, "none", 1))

NextOdd ==
    \/ TextRead
    \/ TextWrite
    \/ TextReread

SpecRead == InitOdd /\ [][NextOdd]_vars

\* C20: read never fails on a line of a manifest file that is present: no line
\* that is not blank, not a comment and not in an ignore block raises an error.
C20_ReadNeverFails == pc.at # "crash"


(***************************************************************************)
(* C19: a query of the installed state that exits non-zero                 *)
(***************************************************************************)

\* a query of the installed state has exited with a status other than 0
QueryFailed == \E i \in 1..Len(log) : log[i].kind = "query" /\ log[i].ret # 0

\* C19 as stated: a query of the installed state that exits non-zero is taken
\* for an empty result and the operation goes on; the process does not exit
\* because of it (no exit whose last command is the failed query).
C19_FailedQueryContinues ==
    ~(pc.at = "exit" /\ pc.ph # "0" /\ log # <<>>
      /\ Last(log).kind = "query" /\ Last(log).ret # 0)

\* C19: a query of the installed state that exits non-zero ends the process
\* with a non-zero status: the failed query is the last command of the run,
\* nothing is installed and no manifest file is written after it.
C19_FailedQueryExits ==
    QueryFailed =>
        /\ pc.at = "exit" /\ pc.ph = "1"
        /\ Last(log).kind = "query"
        /\ files = base.files /\ sys = base.sys

C19_Witness ==
    /\ QueryFailed
    /\ opt.command = "install"
    /\ Last(log).id = S("tap")
    /\ pc.at = "exit"
    /\ sys.taps # <<>>


-----------------------------------------------------------------------------
(* SpecClean: one run of clean or clean_non_request, dry or not            *)

B_trc == Ln(<<K_brew, T_R \o <<"/", "c">> >>)

\* a (installed on request) depends on dep; b was installed as a dependency;
\* c is the formula of the tap t/r
CleanInfo(dep) == [x \in {S("a"), S("b"), S("c")} |->
                      IF x = S("a") THEN Pk(<<>>, FALSE, "True", <<dep>>)
                      ELSE IF x = S("b") THEN Pk(<<>>, FALSE, "False", <<>>)
                      ELSE Pk(<<>>, FALSE, "True", <<>>)]

CleanRoots == { <<B_a>>, <<B_a, CASK_u>>, <<TAP_tr, B_a>>, <<B_a, B_trc>>,
                <<F_S1, B_b>>, <<APP_Foo, B_a, B_b>>, <<B_b>> }

CleanS1 == { NoFile, <<B_c>> }

CleanMachines ==
    { Machine(CleanInfo(S("c")), <<T_R>>, <<S("u")>>, <<STORE["123456789"]>>, "ok"),
      Machine(CleanInfo(S("b")), <<CASK_REPO, T_R>>, <<S("u")>>, <<STORE["123456789"]>>, "old"),
      Machine(CleanInfo(S("b")), <<T_R>>, <<>>, <<>>, "ok") }

InitClean ==
    \E r \in CleanRoots, s1 \in CleanS1, m \in CleanMachines,
       c \in {"clean", "clean_non_request"}, f \in {"none", "leaves"},
       a \in {0, 1}, d \in BOOLEAN :
        Started(Files(r, s1, NoFile), m, [Opt0(c, "none", f, a) EXCEPT !.dryrun = d])

NextClean ==
    \/ Start
    \/ GetList
    \/ ReadAll
    \/ ReadInclude
    \/ ReadReturn
    \/ ReadAllEnd
    \/ CleanupInfo
    \/ CleanupNextPhase
    \/ CleanupMas
    \/ CleanupCask
    \/ CleanupBrew
    \/ CleanupTap
    \/ CleanupCache
    \/ CleanNonRequest
    \/ CleanNonRequestLoop

SpecClean == InitClean /\ [][NextClean]_vars


-----------------------------------------------------------------------------
(* clean: the order of the removals, the untap rule, the dry run           *)

\* the kind and the argument of a command, run or printed
CmdKind(e) == IF e.kind = "print" THEN e.id[1] ELSE e.kind
CmdArg(e) == IF e.kind = "print" THEN Tail(e.id) ELSE e.id

\* the command kind with argument id was emitted: run, or printed by a dry run
Emitted(kind, id) ==
    \E i \in 1..Len(log) : CmdKind(log[i]) = kind /\ CmdArg(log[i]) = id

\* store apps and gui packages first, then packages, then repositories
RemovalRank(k) ==
    CASE k \in {"uninstall_app", "uninstall_cask"} -> 1
      [] k = "uninstall" -> 2
      [] k = "untap" -> 3
      [] OTHER -> 0

CleanDone == opt.command = "clean" /\ pc.at = "exit" /\ pc.ph = "0"

DeclaredIn(name) ==
    UNION { Range(Declared(docs[k].filename)[name]) : k \in Range(Members) }

\* a package or a gui package that the repository R provides is declared
HasDeclaredConsumer(R) ==
    \/ \E p \in DeclaredIn("brew_input") : In(BaseName(p), get_tap_packs(base.sys, R))
    \/ \E c \in DeclaredIn("cask_input") : In(c, get_tap_casks(base.sys, R))

\* C12: in a clean run, an installed repository R that is not declared is
\* untapped if and only if no package and no gui package provided by R is
\* declared in the merged manifest: a repository whose only installed consumers
\* are removed in this run is untapped in the same run, and a repository with a
\* still-declared consumer is never untapped.
C12_UntapRule ==
    /\ opt.command = "clean" =>
          \A R \in Range(base.sys.taps) :
             (Emitted("untap", R) /\ R \notin DeclaredIn("tap_input"))
                 => ~HasDeclaredConsumer(R)
    /\ CleanDone =>
          \A R \in Range(base.sys.taps) \ DeclaredIn("tap_input") :
             ~HasDeclaredConsumer(R) => Emitted("untap", R)


-----------------------------------------------------------------------------
(* SpecInterrupt: init, install and clean with a user interrupt            *)

InterruptRoots == { <<B_a>>, <<F_S1, B_a_lua, B_b>> }
InterruptS1 == { NoFile, <<B_b, CASK_u>> }

InterruptMachines ==
    { Machine(InfoAB(<<WITH_PYTHON>>), <<T_R>>, <<S("u")>>, <<>>, "ok"),
      Machine(NoInfo, <<>>, <<>>, <<>>, "ok") }

InitInterrupt ==
    \E r \in InterruptRoots, s1 \in InterruptS1, m \in InterruptMachines,
       c \in {"init", "install", "clean"}, d \in BOOLEAN :
        Started(Files(r, s1, NoFile), m, [Opt0(c, "none", "none", 0) EXCEPT !.dryrun = d])

NextInterrupt ==
    \/ Start
    \/ Initialize
    \/ InitRead
    \/ GetList
    \/ ReadAll
    \/ ReadInclude
    \/ ReadReturn
    \/ ReadAllEnd
    \/ CleanList
    \/ WriteDoc
    \/ WriteEnd
    \/ InstallBegin
    \/ InstallNextPhase
    \/ InstallTap
    \/ InstallCask
    \/ InstallBrew
    \/ InstallFinish
    \/ CleanupInfo
    \/ CleanupNextPhase
    \/ CleanupCask
    \/ CleanupBrew
    \/ CleanupTap
    \/ CleanupCache
    \/ Interrupt
    \/ WriteInterrupt

SpecInterrupt == InitInterrupt /\ [][NextInterrupt]_vars

WasInterrupted == pc.at = "exit" /\ pc.then = <<"KeyboardInterrupt">>

\* C18: in install, clean and initialize the manifest files are written only
\* after the whole pass of queries and actions (a file differs from its
\* content before the run only in the write pass and after it), and when the
\* run is interrupted during an external call every manifest file has the
\* content it had before the run.
C18_InterruptLeavesManifest ==
    /\ files # base.files => pc.at \in {"write", "exit", "crash"}
    /\ WasInterrupted => files = base.files


-----------------------------------------------------------------------------
(* SpecFilter: init with every combination of the discovery filters        *)

FilterMachines ==
    { Machine(InfoAB(<<>>), <<>>, <<>>, <<>>, "ok"),
      Machine(InfoABC(<<WITH_LUA>>), <<T_R>>, <<S("u")>>, <<>>, "ok"),
      Machine(CleanInfo(S("c")), <<T_R>>, <<>>, <<>>, "ok") }

\* --top_packages: nothing, b, b and a package that is not installed
TopPackages == { <<>>, <<S("b")>>, <<S("b"), S("zz")>>, <<S("c"), <<>>, S("a")>> }

InitFilter ==
    \E r \in {NoFile, <<B_a>>}, m \in FilterMachines,
       l \in BOOLEAN, q \in BOOLEAN, k \in TopPackages :
        Started(Files(r, NoFile, NoFile), m,
                [Opt0("init", "none", "none", 0)
                    EXCEPT !.leaves = l, !.on_request = q, !.top_packages = k])

NextFilter ==
    \/ Start
    \/ Initialize
    \/ GetList
    \/ InitRead
    \/ ReadAll
    \/ ReadAllEnd
    \/ CleanList
    \/ WriteDoc
    \/ WriteEnd

SpecFilter == InitFilter /\ [][NextFilter]_vars

\* the installed packages, the leaves among them (no installed package depends
\* on them), and those installed on request (or of which this is not known)
InstalledSet == DOMAIN base.sys.info
LeafSet == {p \in InstalledSet : \A q \in InstalledSet : ~In(p, base.sys.info[q].deps)}
OnRequestSet == {p \in InstalledSet : base.sys.info[p].on_request # "False"}

\* F of the discovery filter, on-request before leaves, and the always-keep list
FilterF == IF cfg.on_request THEN OnRequestSet
           ELSE IF cfg.leaves THEN LeafSet ELSE InstalledSet
KeepK == Range(cfg.top_packages)

\* get_list of initialize has returned
Probed == opt.command = "init" /\ pc.at = "init_read"

\* C21: the package set that initialize absorbs is F united with the installed
\* packages of the always-keep list K, where F is every installed package, or
\* the leaves when leaves-only is set, or the on-request packages when
\* on-request-only is set (on-request first when both are set).
C21_DiscoveryFilter ==
    Probed => /\ Range(docs[1].brew_list) = FilterF \cup (KeepK \cap InstalledSet)
              /\ DOMAIN docs[1].brew_list_opt = Range(docs[1].brew_list)

C21_Witness ==
    /\ Probed
    /\ cfg.leaves /\ cfg.on_request
    /\ S("b") \in KeepK \ FilterF
    /\ LeafSet # OnRequestSet
    /\ In(S("b"), docs[1].brew_list)


-----------------------------------------------------------------------------
(* SpecApps: clean of store apps, declared and installed with identifiers  *)

APP_1Bar == Ln(<<K_appstore, S("123456789"), S("Bar")>>)
APP_2Bar == Ln(<<K_appstore, S("987654321"), S("Bar")>>)

\* an installed app named Foo with another identifier than the store's Foo
Foo2 == [id |-> "987654321", name |-> S("Foo"), ver |-> "(2.1)"]

AppsRoots == { <<APP_Foo>>, <<APP_FooV>>, <<APP_1Bar>>, <<APP_2Bar>>, <<APP_Bar>>, <<B_a>> }

AppsMachines ==
    { Machine(NoInfo, <<>>, <<>>, <<STORE["123456789"]>>, "ok"),
      Machine(NoInfo, <<>>, <<>>, <<Foo2>>, "ok"),
      Machine(NoInfo, <<>>, <<>>, <<STORE["123456789"], STORE["987654321"]>>, "ok") }

InitApps ==
    \E r \in AppsRoots, m \in AppsMachines, d \in BOOLEAN :
        Started(Files(r, NoFile, NoFile), m,
                [Opt0("clean", "none", "none", 1) EXCEPT !.dryrun = d])

NextApps ==
    \/ Start
    \/ GetList
    \/ ReadAll
    \/ ReadAllEnd
    \/ CleanupInfo
    \/ CleanupNextPhase
    \/ CleanupMas
    \/ CleanupTap
    \/ CleanupCache

SpecApps == InitApps /\ [][NextApps]_vars

\* the identifier (<<>> when there is none) and the name without version of a
\* store-app entry "<id> <name> (<version>)"
EntryId(e) == IF Split(e) # <<>> /\ IsLongDigit(Split(e)[1]) THEN Split(e)[1] ELSE <<>>
EntryName(e) ==
    LET t == IF EntryId(e) # <<>> THEN Tail(Split(e)) ELSE Split(e)
        n == IF t # <<>> /\ Last(t) \in {S(v) : v \in VERSIONS}
             THEN SubSeq(t, 1, Len(t) - 1) ELSE t
    IN Join(n, S(SP))

\* the identity of store apps: the identifiers decide when both entries have
\* one, the names are compared when one of them has none
SameApp(x, d) ==
    IF EntryId(x) # <<>> /\ EntryId(d) # <<>> THEN EntryId(x) = EntryId(d)
    ELSE EntryName(x) = EntryName(d)

\* C22: in clean, when the declared and the installed store app both have an
\* identifier the identifiers decide (equal identifiers match whatever the
\* names, different identifiers do not match even with equal names), else the
\* names without version suffix are compared; an installed store app with no
\* matching declared entry is removed, a matched one is not.
C22_StoreAppIdentity ==
    (CleanDone /\ opt.appstore = 1) =>
        \A k \in 1..Len(base.sys.apps) :
           LET x == AppLine(base.sys.apps[k], TRUE) IN
           Emitted("uninstall_app", x)
               <=> ~\E d \in DeclaredIn("appstore_input") : SameApp(x, d)


-----------------------------------------------------------------------------
(* SpecUpdate: one run of update, with and without -C and a repository     *)

UpdateRoots == { <<B_a>>, <<B_a_lua>>, <<B_b, CASK_u>>, <<TAP_tr, B_a, B_b>> }

UpdateMachines ==
    { Machine(InfoAB(<<WITH_PYTHON>>), <<T_R>>, <<S("u")>>, <<>>, "ok"),
      Machine(InfoAB(<<>>), <<>>, <<>>, <<>>, "ok"),
      Machine(NoInfo, <<>>, <<>>, <<>>, "ok") }

InitUpdate ==
    \E r \in UpdateRoots, m \in UpdateMachines, d \in BOOLEAN, g \in {<<>>, S("r")} :
        Started(Files(r, NoFile, NoFile), m,
                [Opt0("update", "none", "none", 0) EXCEPT !.dryrun = d, !.repo = g])

NextUpdate ==
    \/ Start
    \/ UpdateBegin
    \/ GetList
    \/ ReadAll
    \/ ReadAllEnd
    \/ InstallBegin
    \/ InstallNextPhase
    \/ InstallTap
    \/ InstallCask
    \/ InstallBrew
    \/ InstallFinish
    \/ UpdateClean
    \/ CleanupInfo
    \/ CleanupNextPhase
    \/ CleanupCask
    \/ CleanupBrew
    \/ CleanupTap
    \/ CleanupCache
    \/ Initialize
    \/ InitRead
    \/ CleanList
    \/ WriteDoc
    \/ WriteEnd
    \/ UpdatePush

SpecUpdate == InitUpdate /\ [][NextUpdate]_vars


UpdateDone == opt.command = "update" /\ pc.at = "exit" /\ pc.ph = "0"

\* what the files of the member documents declare now in the domain name
DeclaredNow(name) ==
    UNION { Range(BrewInfo_read(sys, files, NewBrewInfo(docs[k].filename), "none").b[name]) :
               k \in Range(Members) }

\* the order of the steps of update: install, then cleanup exactly when -C was
\* given, then initialize, then push exactly when a repository is set
UpdateOrder ==
    /\ (pc.at = "install" /\ pc'.at \notin {"install", "write", "exit"})
           => pc'.at = "update_clean"
    /\ pc.at = "update_clean" => pc'.at = (IF opt.dryrun THEN "initialize" ELSE "get_list")
    /\ (pc.at = "cleanup" /\ pc'.at \notin {"cleanup", "exit"}) => pc'.at = "initialize"
    /\ pc.at = "update_push" => (log' # log <=> opt.repo # <<>>)

\* the init step of update queries the installed state
UpdateInitQueries == pc.at = "initialize" => pc'.at = "get_list"

\* C23: in every update run the steps come in the order install, clean (only
\* with -C), init, push (only with a repository), and the init step always
\* queries the installed state after install and clean and rewrites the
\* manifest from it, also when install has rewritten the manifest before: after
\* the run every installed package is declared in the manifest.
C23_UpdateOrder ==
    /\ [][UpdateOrder /\ UpdateInitQueries]_vars
    /\ [](UpdateDone => Range(FullList(sys)) \subseteq DeclaredNow("brew_input"))


-----------------------------------------------------------------------------
(* SpecDialect: init on documents written in different dialects            *)

BQ_a == Ln(<<K_brew, <<SQ, "a", SQ>> >>)
BI_b == Ln(<<K_brew, K_install, S("b")>>)

DialectRoots == { <<F_S1, BQ_a>>, <<F_S1, BI_b>>, <<F_S1, B_a>>, <<BQ_a, F_S1, BI_b>> }
DialectS1 == { <<BI_b>>, <<BQ_a>>, <<B_b>> }

InitDialect ==
    \E r \in DialectRoots, s1 \in DialectS1, form \in {"none", "file", "bundle", "cmd"},
       m \in {Machine(InfoAB(<<>>), <<>>, <<>>, <<>>, "ok"),
              Machine(NoInfo, <<T_R>>, <<>>, <<>>, "ok")} :
        Started(Files(r, s1, NoFile), m, Opt0("init", form, "none", 0))

NextDialect ==
    \/ Start
    \/ Initialize
    \/ GetList
    \/ InitRead
    \/ ReadAll
    \/ ReadInclude
    \/ ReadReturn
    \/ ReadAllEnd
    \/ CleanList
    \/ WriteDoc
    \/ WriteEnd

SpecDialect == InitDialect /\ [][NextDialect]_vars

\* C24: the active dialect changes at most once in a process, from undetected
\* to the first dialect detected while a document is read, and never
\* afterwards; detection never changes a dialect set by configuration; the
\* dialect does not change during a write pass, so every document of the pass
\* is written in one dialect.
C24_DialectSticky ==
    [][/\ opt'.form # opt.form => (opt.form = "none" /\ cfg.form = "none"
                                    /\ pc.at \in {"read_all", "read"})
       /\ pc.at = "write" => opt'.form = opt.form]_vars

C24_Witness ==
    /\ pc.at = "write"
    /\ pc.i = 3
    /\ cfg.form = "none"
    /\ opt.form = "bundle"
    /\ base.files[ROOT] = <<F_S1, BQ_a>>
    /\ base.files[S1P] = <<BI_b>>
    /\ files # base.files


-----------------------------------------------------------------------------
(* SpecDup: read of texts that declare an identifier more than once        *)

DupLines == << B_a_lua, B_a_py, B_a_lua, CASK_u, CASK_u, TAP_tr, TAP_tr, B_c >>

DupTexts == {Choice(DupLines, c) : c \in SUBSET (1..Len(DupLines))}

InitDup ==
    \E text \in DupTexts :
        Started(Files(text, NoFile, NoFile),
                Machine(InfoAB(<<>>), <<>>, <<>>, <<>>, "ok"),
                Opt0("text", "none", "none", 1))

NextDup ==
    \/ TextRead
    \/ TextWrite
    \/ TextReread

SpecDup == InitDup /\ [][NextDup]_vars

NoDup(seq) == \A i, j \in 1..Len(seq) : i # j => seq[i] # seq[j]

\* C25: after read of a file the declared package list and the declared
\* gui-package list hold each identifier at most once (a repeated declaration
\* keeps one entry), and the declared repository list holds each repository
\* at most once.
C25_DeclaredOnce ==
    pc.at = "text_write" =>
        /\ NoDup(base.first.brew_input)
        /\ NoDup(base.first.cask_input)
        /\ NoDup(base.first.tap_input)


-----------------------------------------------------------------------------
(* SpecTee: check_cask writes the Caskfile through a Tee                   *)

CASKFILE == S("Caskfile")

\* Tee.__init__ with a file name in out1: the name is kept and out1 is a
\* buffer in memory (StringIO)
Tee_init(out1, use2) == [out1name |-> out1, out1 |-> <<>>, use2 |-> use2, open |-> TRUE]

\* Tee.writeln: the line goes to the buffer
Tee_writeln(t, text) == [t EXCEPT !.out1 = Append(t.out1, text)]

\* Tee.__del__: the buffer of a named out1 is closed; nothing is written
Tee_del(t) == IF t.out1name # <<>> THEN [t EXCEPT !.out1 = <<>>, !.open = FALSE] ELSE t

\* Tee.close: the value of the buffer is written to the file out1name
Tee_close(t, fs) ==
    IF t.out1name # <<>> THEN [fs EXCEPT ![t.out1name] = t.out1] ELSE fs

\* the lines check_cask writes: the header, the main tap and one line for
\* every application installed by a cask of the main tap
CaskLines(m) ==
    << <<"#", SP, "Cask", SP, "applications">>, Ln(<<K_tap, CASK_REPO>>), <<>> >>
    \o [i \in 1..Len(m.casks) |->
            Ln(<<K_cask, m.casks[i], S("#"), <<"~", "/">> \o m.casks[i]>>)]

\* out = Tee("Caskfile", sys.stdout, self.verbose() > 1)
CheckCaskTee ==
    /\ pc.at = "check_cask"
    /\ stack' = <<Tee_init(CASKFILE, opt.verbose > 1)>>
    /\ pc' = At("caskfile", <<>>)
    /\ UNCHANGED <<files, sys, opt, docs, ext, main, log, run, cfg, base>>

\* out.writeln(...) of the next line
CheckCaskWriteln ==
    /\ pc.at = "caskfile"
    /\ pc.i <= Len(CaskLines(sys))
    /\ stack' = <<Tee_writeln(stack[1], CaskLines(sys)[pc.i])>>
    /\ log' = log \o <<Entry("writeln", CaskLines(sys)[pc.i], 0)>>
                  \o (IF stack[1].use2 THEN <<Entry("stdout", CaskLines(sys)[pc.i], 0)>>
                      ELSE <<>>)
    /\ pc' = Step
    /\ UNCHANGED <<files, sys, opt, docs, ext, main, run, cfg, base>>

\* out.close() after the last line, then the summary
CheckCaskClose ==
    /\ pc.at = "caskfile"
    /\ pc.i > Len(CaskLines(sys))
    /\ files' = Tee_close(stack[1], files)
    /\ stack' = <<Tee_del(stack[1])>>
    /\ pc' = Exit("0")
    /\ UNCHANGED <<sys, opt, docs, ext, main, log, run, cfg, base>>

\* the user interrupts check_cask between Tee(...) and out.close(): main
\* catches KeyboardInterrupt and exits; the Tee is dropped with the process
CheckCaskInterrupt ==
    /\ pc.at = "caskfile"
    /\ stack' = <<Tee_del(stack[1])>>
    /\ pc' = Interrupted
    /\ UNCHANGED <<files, sys, opt, docs, ext, main, log, run, cfg, base>>

TeeCasks == { <<>>, <<S("u")>>, <<S("v")>>, <<S("u"), S("v")>> }

TeeOld == { NoFile, <<CASK_u>> }

InitTee ==
    \E casks \in TeeCasks, old \in TeeOld, verbose \in {1, 2} :
        /\ files = [x \in {CASKFILE} |-> old]
        /\ sys = Machine(NoInfo, <<CASK_REPO>>, casks, <<>>, "ok")
        /\ opt = [command |-> "casklist", verbose |-> verbose]
        /\ cfg = opt
        /\ docs = <<>>
        /\ ext = <<>>
        /\ main = 1
        /\ stack = <<>>
        /\ pc = At("check_cask", <<>>)
        /\ log = <<>>
        /\ run = 1
        /\ base = [sys |-> sys, files |-> files]

NextTee ==
    \/ CheckCaskTee
    \/ CheckCaskWriteln
    \/ CheckCaskClose
    \/ CheckCaskInterrupt

SpecTee == InitTee /\ [][NextTee]_vars

\* the lines written to the Tee so far
TeeWritten == SelectSeq(log, LAMBDA e : e.kind = "writeln")

TeeText == [i \in 1..Len(TeeWritten) |-> TeeWritten[i].id]

\* C26: the text written to a Tee opened on a file name is in the file when
\* the Tee has been closed, and also when the code between the creation of
\* the Tee and close() exits early: at the end of the process the file holds
\* every line that was written to the Tee.
C26_TeeFlush ==
    pc.at \in {"exit", "crash"} /\ TeeText # <<>> => files[CASKFILE] = TeeText


-----------------------------------------------------------------------------
(* SpecTwice: write of a document twice in a row                           *)

\* a second write of the document, straight after the first
TextWriteAgain ==
    /\ pc.at = "text_reread"
    /\ \E w \in {BrewInfo_write(sys, opt, docs[1])} :
          /\ docs' = [docs EXCEPT ![1] = w.b]
          /\ files' = IF w.text = NoFile THEN files ELSE [files EXCEPT ![docs[1].filename] = w.text]
          /\ base' = [sys |-> base.sys, files |-> base.files, first |-> base.first,
                      once |-> files[docs[1].filename]]
          /\ pc' = IF w.err # "" THEN Crash(w.err) ELSE At("text_twice", <<>>)
    /\ UNCHANGED <<sys, opt, ext, main, stack, log, run, cfg>>

NextTwice ==
    \/ TextRead
    \/ TextWrite
    \/ TextWriteAgain

SpecTwice == InitText /\ [][NextTwice]_vars

\* the entries of the current lists of a document
ListEntries(b) ==
    [package |-> {<<x, IF x \in DOMAIN b.brew_list_opt THEN b.brew_list_opt[x] ELSE <<"?">> >> :
                     x \in Range(b.brew_list)},
     gui_package |-> Range(b.cask_list),
     repository |-> Range(b.tap_list)]

\* C27: write does not change the entries of a document: after write the
\* current package list with its options, the gui-package list and the
\* repository list hold the entries they held before, and a second write
\* straight after the first gives the same file content.
C27_WriteFrame ==
    /\ pc.at = "text_reread" =>
           ListEntries(docs[1]) = ListEntries(BrewInfo_input_to_list(base.first))
    /\ pc.at = "text_twice" => files[docs[1].filename] = base.once


-----------------------------------------------------------------------------
(* initialize: the current package lists and the installed packages        *)

\* initialize has returned: get_list, read_all, clean_list and
\* initialize_write are done
InitializeDone == opt.command = "init" /\ pc.at = "exit" /\ pc.ph = "0"

\* the member documents other than main
NonMain == Range(ext) \ {main}

\* C28: after initialize on an existing manifest graph the union of the
\* current package lists of the member documents is the filtered installed
\* package set: no document keeps a package that is not in the set, an
\* installed package that a document other than main declares is in the list
\* of that document, and an installed package that no such document declares
\* is in the list of main.
C28_ListsAreInstalledSet ==
    InitializeDone /\ base.files[ROOT] # NoFile =>
        /\ UNION {Range(docs[k].brew_list) : k \in Range(Members)}
               = Range(Discovered.brew_list)
        /\ \A k \in NonMain :
              \A x \in Range(Declared(docs[k].filename).brew_input) :
                  In(x, Discovered.brew_list) => In(x, docs[k].brew_list)
        /\ \A x \in Range(Discovered.brew_list) :
              (\A k \in NonMain : ~In(x, Declared(docs[k].filename).brew_input))
                  => In(x, docs[main].brew_list)


-----------------------------------------------------------------------------
(* SpecTwiceDeclared: install on manifests that declare an entry twice     *)

TwiceRoots ==
    { <<TAP_tr, TAP_tr, B_c>>, <<CASK_u, CASK_u>>, <<B_c, B_c>>,
      <<B_a_lua, B_a_lua>>, <<F_S1, TAP_tr, CASK_u, B_c>>,
      <<BEFORE_hi, APP_Foo, B_b>>, <<B_a, B_b, CASK_u>> }

TwiceS1 == { NoFile, <<TAP_tr, CASK_u, B_c>> }

TwiceMachines ==
    { Machine(NoInfo, <<>>, <<>>, <<>>, "ok"),
      Machine(InfoAB(<<WITH_PYTHON>>), <<>>, <<>>, <<>>, "ok"),
      Machine(InfoABC(<<>>), <<T_R>>, <<S("u")>>, <<STORE["123456789"]>>, "ok") }

InitTwiceDeclared ==
    \E r \in TwiceRoots, s1 \in TwiceS1, m \in TwiceMachines, a \in {0, 1} :
        Started(Files(r, s1, NoFile), m, Opt0("install", "none", "none", a))

SpecTwiceDeclared == InitTwiceDeclared /\ [][NextInstall]_vars

\* the domain of the identifier a command of install is run for
InstallDomain(kind) ==
    CASE kind = "tap" -> "repository"
      [] kind = "cask" -> "gui_package"
      [] kind \in PackageCommands -> "package"
      [] OTHER -> ""

\* the identifier a command of install is run for, without the options
InstallId(e) == IF e.kind \in PackageCommands THEN SubSeq(e.id, 1, 1) ELSE e.id

\* C29: in one run of install each declared identifier causes at most one
\* external command (brew tap, brew install, brew reinstall, brew install
\* --cask), also when it is declared in more than one member document or more
\* than once in one document.
C29_OneCommandForAnIdentifier ==
    \A i, j \in 1..Len(log) :
        i < j /\ InstallDomain(log[i].kind) # "" /\ log[i].run = log[j].run =>
            ~(/\ InstallDomain(log[i].kind) = InstallDomain(log[j].kind)
              /\ InstallId(log[i]) = InstallId(log[j]))


-----------------------------------------------------------------------------
(* SpecDeps: clean on machines with chains and cycles of dependencies      *)

\* the installed packages a, b and c with the dependencies da, db and dc
DepsInfo(da, db, dc) ==
    [x \in {S("a"), S("b"), S("c")} |->
        IF x = S("a") THEN Pk(<<>>, FALSE, "True", da)
        ELSE IF x = S("b") THEN Pk(<<>>, FALSE, "False", db)
        ELSE Pk(<<>>, FALSE, "False", dc)]

\* a chain a, b, c; a cycle a, b; a cycle b, c below a; a package that depends
\* on itself; a dependency that is not installed and one named with its tap
DepsInfos ==
    { DepsInfo(<<S("b")>>, <<S("c")>>, <<>>),
      DepsInfo(<<S("b")>>, <<S("a")>>, <<>>),
      DepsInfo(<<S("b")>>, <<S("c")>>, <<S("b")>>),
      DepsInfo(<<S("a")>>, <<>>, <<S("a"), S("b")>>),
      DepsInfo(<<S("z"), T_R \o <<"/", "c">> >>, <<>>, <<>>) }

DepsRoots == { <<B_a>>, <<B_c>>, <<B_b>>, <<F_S1, B_b>>, <<CASK_u, B_a>>, <<TAP_tr>>,
               <<B_trc>> }

DepsS1 == { NoFile, <<B_a>> }

InitDeps ==
    \E r \in DepsRoots, s1 \in DepsS1, info \in DepsInfos, d \in BOOLEAN, a \in {0, 1} :
        Started(Files(r, s1, NoFile),
                Machine(info, <<T_R>>, <<S("u")>>, <<STORE["123456789"]>>, "ok"),
                [Opt0("clean", "none", "none", a) EXCEPT !.dryrun = d])

NextDeps ==
    \/ Start
    \/ GetList
    \/ ReadAll
    \/ ReadInclude
    \/ ReadReturn
    \/ ReadAllEnd
    \/ CleanupInfo
    \/ CleanupNextPhase
    \/ CleanupMas
    \/ CleanupCask
    \/ CleanupBrew
    \/ CleanupTap
    \/ CleanupCache

SpecDeps == InitDeps /\ [][NextDeps]_vars

\* the packages of X and the installed packages they depend on, directly or
\* through installed packages
RECURSIVE DepClosure(_, _)
DepClosure(info, X) ==
    LET Y == X \cup ({BaseName(d) : d \in UNION {Range(info[x].deps) : x \in X}}
                     \cap DOMAIN info)
    IN IF Y = X THEN X ELSE DepClosure(info, Y)

\* the installed packages that a member document declares
DeclaredInstalled ==
    UNION {Range(Declared(docs[k].filename).brew_input) : k \in Range(Members)}
        \cap DOMAIN base.sys.info

====
